---- MODULE Spec2Model ----
(***************************************************************************)
(* The FastAPI LTI tool: federated (LTI 1.3) token validation with the     *)
(* platform key-set cache (LTI13Validator.get_platform_jwks,               *)
(* validate_jwt_token, validate_lti_message) and the /lti/launch handler;  *)
(* grade passback over LTI Basic Outcomes (LTIOutcomesService.send_grade)  *)
(* and over the Assignment and Grade Service (LTI13GradeService) with its  *)
(* service access token and signed client assertions.                      *)
(***************************************************************************)

EXTENDS Integers, Sequences, FiniteSets, TLC

VARIABLES
    envDEBUG,   \* value of the DEBUG environment variable at import time
    now,        \* wall clock, time.time()
    cache,      \* lti13_validator.platform_jwks_cache: issuer -> {jwks, timestamp}
    last,       \* observation of the last operation (call, inputs, result)
    service,    \* lti13_grade_service: its access_token and token_expiry
    key_file,   \* the private key in the file at settings.LTI_PRIVATE_KEY_PATH
    token_requests, \* the requests posted to the token endpoint so far
    threads,    \* the get_platform_jwks calls that are under way
    redirects,  \* the authentication requests oidc_login has redirected to so far
    grants      \* the token responses the token endpoint has answered with so far

vars == <<envDEBUG, now, cache, last, service, key_file, token_requests, threads, redirects, grants>>

\* the state outside the validator and the launch
restVars == <<service, key_file, token_requests, threads, redirects, grants>>

----------------------------------------------------------------------------
(* Markers *)

Absent == "<absent>"     \* a claim / header field / dict key that is not there
Unset  == "<unset>"      \* an environment variable that is not set
None   == "<none>"       \* Python None

----------------------------------------------------------------------------
(* Settings (app/core/config.py) *)

EnvDebugValues == {Unset, "false", "TRUE"}

\* str.lower() on the strings the DEBUG variable takes here
Lower(s) == CASE s = "TRUE"  -> "true"
              [] s = "True"  -> "true"
              [] s = "FALSE" -> "false"
              [] OTHER       -> s

\* os.getenv(name, default)
Getenv(value, default) == IF value = Unset THEN default ELSE value

DEBUG == Lower(Getenv(envDEBUG, "true")) = "true"

LTI_PLATFORM_ISSUER   == "https://lms.example"
LTI_PLATFORM_JWKS_URL == "https://lms.example/mod/lti/certs.php"
LTI_CLIENT_ID         == "client-1"
LTI_DEPLOYMENT_ID     == "deployment-1"
LTI_TOOL_URL          == "http://localhost:8000"

----------------------------------------------------------------------------
(* Clock *)

cache_expiry == 3600

\* the clock when the process starts
StartTime == cache_expiry

MaxTime == 7201

\* the instants at which the clock is read: around one TTL period
TimeGrid == {StartTime, StartTime + 1, StartTime + cache_expiry - 1,
             StartTime + cache_expiry, MaxTime}

----------------------------------------------------------------------------
(* The platforms and what they publish *)

OTHER_ISSUER  == "https://other.example"
MOODLE_ISSUER == "https://Moodle.partner.example"

Issuers == {LTI_PLATFORM_ISSUER, OTHER_ISSUER, MOODLE_ISSUER}

\* 'moodle' in platform_issuer.lower(), for the issuers above
ContainsMoodle(iss) == iss = MOODLE_ISSUER

\* f"{platform_issuer}/.well-known/jwks.json"
WellKnownUrl(iss) == iss \o "/.well-known/jwks.json"

\* get_platform_jwks: the URL the key set of an issuer is fetched from
JwksUrl(iss) ==
    IF ContainsMoodle(iss) \/ iss = LTI_PLATFORM_ISSUER
    THEN LTI_PLATFORM_JWKS_URL
    ELSE WellKnownUrl(iss)

\* key material: who holds the private key
PlatformKey == "key-of-platform"
OtherKey    == "key-of-other"

\* a JWK that RSAAlgorithm.from_jwk cannot turn into a key
UnusableKey == "not-an-rsa-key"

Jwk(kid, use, n) == [kid |-> kid, use |-> use, n |-> n]

PlatformJwks == [keys |-> << Jwk("k1", "sig", PlatformKey) >>]
NoKeysJwks   == [keys |-> << >>]
OtherJwks    == [keys |-> << Jwk("k1", "sig", OtherKey) >>]
UnusableJwks == [keys |-> << Jwk("k1", "sig", UnusableKey) >>]

\* the JSON documents a URL may answer with: each issuer publishes its own keys
Published(url) ==
    IF url = LTI_PLATFORM_JWKS_URL THEN {PlatformJwks, NoKeysJwks} ELSE {OtherJwks}

\* what requests.get(jwks_url, timeout=10) ... response.json() may do
FetchFailures == {"transport_error", "http_error", "bad_json"}

\* a request that fails yields no document: its body is never looked at
NoBody == [keys |-> << >>]

FetchOutcomes(url) ==
    {[kind |-> k, body |-> NoBody] : k \in FetchFailures}
        \cup {[kind |-> "ok", body |-> d] : d \in Published(url)}

----------------------------------------------------------------------------
(* LTI13Validator.get_platform_jwks *)

EmptyCache == [i \in {} |-> None]

\* the handler's return value when the fetch raises
EmptyKeySet == [keys |-> << >>]

\* mutant: an entry is still served when its age equals the TTL
CacheHit_Inclusive(c, t, iss) ==
    /\ iss \in DOMAIN c
    /\ t - c[iss].timestamp <= cache_expiry

\* line 46-49: is the entry of iss served from the cache at time t
CacheHit(c, t, iss) ==
    /\ iss \in DOMAIN c
    /\ t - c[iss].timestamp < cache_expiry

\* line 64-67: one assignment of a new {jwks, timestamp} dictionary
CacheStore_KeepsTimestamp(c, t, iss, jwks) ==
    [i \in DOMAIN c \cup {iss} |->
        IF i = iss
        THEN [jwks |-> jwks, timestamp |-> IF iss \in DOMAIN c THEN c[iss].timestamp ELSE t]
        ELSE c[i]]

CacheStore(c, t, iss, jwks) ==
    [i \in DOMAIN c \cup {iss} |->
        IF i = iss THEN [jwks |-> jwks, timestamp |-> t] ELSE c[i]]

\* mutant: the cache is never consulted
get_platform_jwks_AlwaysFetch(c, t, iss, outcome) ==
    IF outcome.kind = "ok"
    THEN [ret |-> outcome.body, cache |-> CacheStore(c, t, iss, outcome.body), gets |-> 1]
    ELSE [ret |-> EmptyKeySet, cache |-> c, gets |-> 1]

\* mutant: a failed fetch stores the empty key set
get_platform_jwks_CachesFailure(c, t, iss, outcome) ==
    IF CacheHit(c, t, iss)
    THEN [ret |-> c[iss].jwks, cache |-> c, gets |-> 0]
    ELSE IF outcome.kind = "ok"
         THEN [ret |-> outcome.body, cache |-> CacheStore(c, t, iss, outcome.body), gets |-> 1]
         ELSE [ret |-> EmptyKeySet, cache |-> CacheStore(c, t, iss, EmptyKeySet), gets |-> 1]

\* the whole call: the value returned, the cache afterwards, the HTTP GETs made
get_platform_jwks(c, t, iss, outcome) ==
    IF CacheHit(c, t, iss)
    THEN [ret |-> c[iss].jwks, cache |-> c, gets |-> 0]
    ELSE IF outcome.kind = "ok"
         THEN [ret |-> outcome.body, cache |-> CacheStore(c, t, iss, outcome.body), gets |-> 1]
         ELSE [ret |-> EmptyKeySet, cache |-> c, gets |-> 1]

----------------------------------------------------------------------------
(* Tokens.  A token is what its three segments decode to: the header's kid,  *)
(* the payload's claims, and the key whose holder produced the signature     *)
(* over exactly this header and payload.                                     *)

OTHER_CLIENT_ID     == "client-2"
OTHER_DEPLOYMENT_ID == "deployment-2"

\* a payload is the mapping of the claims it has; the LTI claims are named
\* without their https://purl.imsglobal.org/spec/lti/claim/ prefix
Has(p, claim) == claim \in DOMAIN p

\* jwt_payload.get(claim, default)
Get(p, claim, default) == IF Has(p, claim) THEN p[claim] ELSE default

SetClaim(p, claim, value) ==
    [c \in DOMAIN p \cup {claim} |-> IF c = claim THEN value ELSE p[c]]

DelClaim(p, claim) == [c \in DOMAIN p \ {claim} |-> p[c]]

\* the aud claim as the list PyJWT turns it into (a string s is [s])
AudValues == {<<LTI_CLIENT_ID>>, <<OTHER_CLIENT_ID>>, <<OTHER_CLIENT_ID, LTI_CLIENT_ID>>}

\* the claims of a launch the issuer iss mints at time t for this tool
GoodPayload(iss, t) ==
    [iss           |-> iss,
     aud           |-> <<LTI_CLIENT_ID>>,
     exp           |-> t + 3600,
     iat           |-> t,
     nonce         |-> "nonce-1",
     message_type  |-> "LtiResourceLinkRequest",
     version       |-> "1.3.0",
     deployment_id |-> LTI_DEPLOYMENT_ID]

\* header kid, signing key and payload; malformed: a string that is no JWT
MintedToken(iss, key, t) ==
    [malformed |-> FALSE, kid |-> "k1", signer |-> key, payload |-> GoodPayload(iss, t)]

MalformedToken ==
    [malformed |-> TRUE, kid |-> Absent, signer |-> Absent, payload |-> [c \in {} |-> None]]

MaxFaults == 2

\* the tokens that differ from tok in one part
OneFault(tok, t) ==
    IF tok.malformed THEN {tok}
    ELSE {MalformedToken}
        \cup {[tok EXCEPT !.kid = "k2"]}
        \cup {[tok EXCEPT !.signer = k] : k \in {PlatformKey, OtherKey}}
        \cup {[tok EXCEPT !.payload = DelClaim(@, c)] : c \in {"iss", "aud", "exp"}}
        \cup {[tok EXCEPT !.payload = SetClaim(@, "iss", i)] :
                    i \in {LTI_PLATFORM_ISSUER, OTHER_ISSUER}}
        \cup {[tok EXCEPT !.payload = SetClaim(@, "aud", a)] : a \in AudValues}
        \cup {[tok EXCEPT !.payload = SetClaim(@, "exp", t - 10)]}
        \cup {[tok EXCEPT !.payload = SetClaim(@, "deployment_id", OTHER_DEPLOYMENT_ID)]}

RECURSIVE WithFaults(_, _, _)
WithFaults(S, t, n) ==
    IF n = 0 THEN S
    ELSE WithFaults(S \cup UNION {OneFault(tok, t) : tok \in S}, t, n - 1)

\* the id_tokens posted to /lti/launch at time t: a launch minted by the
\* registered platform or by another issuer, with up to MaxFaults parts changed
TokensMintedAt(t) ==
    WithFaults({MintedToken(LTI_PLATFORM_ISSUER, PlatformKey, t),
                MintedToken(OTHER_ISSUER, OtherKey, t)}, t, MaxFaults)

Tokens == [t \in TimeGrid |-> TokensMintedAt(t)]

----------------------------------------------------------------------------
(* jwt.decode(token, public_key, algorithms=['RS256'], audience=, issuer=)   *)
(* of PyJWT: the signature first, then exp, iss, aud.  Launch tokens carry   *)
(* iat <= now and no nbf, so PyJWT's checks of those never fail here.        *)

SignatureVerifies(tok, public_key) == tok.signer = public_key

AudienceMatches(aud, audience) == \E i \in 1..Len(aud) : aud[i] = audience

JwtDecode(tok, public_key, audience, issuer, t) ==
    IF ~SignatureVerifies(tok, public_key) THEN "InvalidSignatureError"
    ELSE IF Has(tok.payload, "exp") /\ tok.payload.exp <= t THEN "ExpiredSignatureError"
    ELSE IF tok.payload.iss # issuer THEN "InvalidIssuerError"
    ELSE IF ~AudienceMatches(tok.payload.aud, audience) THEN "InvalidAudienceError"
    ELSE "ok"

----------------------------------------------------------------------------
(* LTI13Validator.validate_jwt_token *)

\* mutant: a failure that carries no error
Invalid_NoMessage(error) == [valid |-> FALSE]

Invalid(error) == [valid |-> FALSE, error |-> error]

UNVERIFIED_WARNING == "Signature verification skipped in debug mode"

\* Python truth value of header.get('kid'): None and '' are false
Truthy(kid) == kid # Absent /\ kid # ""

\* mutant: a header without kid takes the first key, whatever its use
SelectKey_AnyKeyWithoutKid(keys, kid) ==
    LET picks(i) == \/ (Truthy(kid) /\ keys[i].kid = kid)
                    \/ ~Truthy(kid)
        hits == {i \in 1..Len(keys) : picks(i)}
    IN IF hits = {} THEN 0 ELSE CHOOSE i \in hits : \A j \in hits : i <= j

\* line 106-115: the index of the key the loop breaks on, 0 when it ends without
SelectKey(keys, kid) ==
    LET picks(i) == \/ (Truthy(kid) /\ keys[i].kid = kid)
                    \/ (~Truthy(kid) /\ keys[i].use = "sig")
        hits == {i \in 1..Len(keys) : picks(i)}
    IN IF hits = {} THEN 0 ELSE CHOOSE i \in hits : \A j \in hits : i <= j

\* line 128-152: the result for what jwt.decode did
DecodeResult(tok, decoded) ==
    CASE decoded = "ok"                    -> [valid |-> TRUE, payload |-> tok.payload, warnings |-> << >>]
      [] decoded = "ExpiredSignatureError" -> Invalid("Token expired")
      [] decoded = "InvalidAudienceError"  -> Invalid("Invalid audience: Audience doesn't match")
      [] decoded = "InvalidIssuerError"    -> Invalid("Invalid issuer: Invalid issuer")
      [] decoded = "InvalidSignatureError" -> Invalid("Invalid signature")
      [] OTHER                             -> Invalid(decoded)

\* mutant: the fallback does not look at settings.DEBUG
NoKeysResult_AlwaysSkips(tok) ==
    [valid |-> TRUE, payload |-> tok.payload, warnings |-> <<UNVERIFIED_WARNING>>]

\* mutant: the fallback result carries no warning
NoKeysResult_NoWarning(tok) ==
    IF DEBUG
    THEN [valid |-> TRUE, payload |-> tok.payload, warnings |-> << >>]
    ELSE Invalid("No public keys available for signature verification")

\* line 94-104: the key set has no keys
NoKeysResult(tok) ==
    IF DEBUG
    THEN [valid |-> TRUE, payload |-> tok.payload, warnings |-> <<UNVERIFIED_WARNING>>]
    ELSE Invalid("No public keys available for signature verification")

\* the except clauses that name an exception class
NamedClauses ==
    {"ExpiredSignatureError", "InvalidAudienceError", "InvalidIssuerError",
     "InvalidSignatureError"}

\* mutant: there is no final 'except Exception' clause
ExceptClause_NoCatchAll(exception) ==
    IF exception \in NamedClauses THEN exception ELSE None

\* line 134-152: the except clause that catches an exception raised in the try
\* body (None: no clause does, and the exception leaves the function)
ExceptClause(exception) ==
    IF exception \in NamedClauses THEN exception ELSE "Exception"

\* does an exception of the try body (None: it returned) leave the function
Escapes(exception) == exception # None /\ ExceptClause(exception) = None

\* line 106-132: verification against a key set that has keys; exception is
\* what the try body raised (None when it returned)
VerifyWithKeys(tok, keys, audience, t) ==
    LET k == SelectKey(keys, tok.kid) IN
    IF k = 0 THEN [result |-> Invalid("No matching public key found for kid"),
                   used |-> 0, decoded |-> None, exception |-> "ValueError"]
    ELSE IF keys[k].n = UnusableKey
    THEN [result |-> Invalid("Not an RSA key"),
          used |-> k, decoded |-> None, exception |-> "InvalidKeyError"]
    ELSE LET decoded == JwtDecode(tok, keys[k].n,
                                  IF audience # None /\ audience # "" THEN audience
                                  ELSE LTI_CLIENT_ID,
                                  tok.payload.iss, t)
         IN [result |-> DecodeResult(tok, decoded), used |-> k, decoded |-> decoded,
             exception |-> IF decoded = "ok" THEN None ELSE decoded]

\* the whole call: its result, the cache afterwards, the HTTP GETs made,
\* whether get_platform_jwks was called and what it returned, the index of the
\* key jwt.decode was called with (0 when not called) and what it did (None
\* when not called); jwks is meaningful only when resolved; exception is what
\* the try body raised (None when it returned) and raised whether it left the
\* function
validate_jwt_token(tok, audience, c, t, outcome) ==
    LET skipped(error, exception) ==
            [result |-> Invalid(error), cache |-> c, gets |-> 0,
             resolved |-> FALSE, jwks |-> EmptyKeySet, used |-> 0,
             decoded |-> None, exception |-> exception,
             raised |-> Escapes(exception)] IN
    IF tok.malformed THEN skipped("Not enough segments", "DecodeError")
    ELSE IF ~Has(tok.payload, "iss")
    THEN skipped("Missing issuer (iss) in JWT", "ValueError")
    ELSE IF ~Has(tok.payload, "aud")
    THEN skipped("Missing audience (aud) in JWT", "ValueError")
    ELSE LET j == get_platform_jwks(c, t, tok.payload.iss, outcome) IN
         IF j.ret.keys = << >>
         THEN LET x == IF DEBUG THEN None ELSE "ValueError" IN
              [result |-> NoKeysResult(tok), cache |-> j.cache, gets |-> j.gets,
               resolved |-> TRUE, jwks |-> j.ret, used |-> 0, decoded |-> None,
               exception |-> x, raised |-> Escapes(x)]
         ELSE LET v == VerifyWithKeys(tok, j.ret.keys, audience, t) IN
              [result |-> v.result, cache |-> j.cache, gets |-> j.gets,
               resolved |-> TRUE, jwks |-> j.ret, used |-> v.used, decoded |-> v.decoded,
               exception |-> v.exception, raised |-> Escapes(v.exception)]

----------------------------------------------------------------------------
(* LTI13Validator.validate_lti_message *)

AddIf(seq, cond, entry) == IF cond THEN Append(seq, entry) ELSE seq

RequiredClaims ==
    {"iss", "aud", "exp", "iat", "nonce", "message_type", "version", "deployment_id"}

SupportedTypes ==
    {"LtiResourceLinkRequest", "LtiDeepLinkingRequest", "LtiSubmissionReviewRequest"}

\* target_link_uri.startswith(settings.LTI_TOOL_URL), for the URIs of the model
StartsWithToolUrl(uri) == uri \in {LTI_TOOL_URL, LTI_TOOL_URL \o "/lti/launch"}

\* mutant: a result with warnings is not valid
validate_lti_message_WarningsFatal(p, t) ==
    LET missing == {c \in RequiredClaims : ~Has(p, c)}
        e1 == AddIf(<< >>, missing # {}, "Missing required claims")
        w1 == AddIf(<< >>, Get(p, "version", None) # "1.3.0", "LTI version may not be fully supported")
        w2 == AddIf(w1, Get(p, "message_type", None) \notin SupportedTypes,
                    "Message type may not be fully supported")
        e2 == AddIf(e1, Get(p, "deployment_id", None) # LTI_DEPLOYMENT_ID, "Invalid deployment ID")
        w3 == AddIf(w2, Has(p, "target_link_uri") /\ ~StartsWithToolUrl(p.target_link_uri),
                    "Target link URI doesn't match tool URL")
        e3 == AddIf(e2, Get(p, "exp", 0) < t, "Token has expired")
        e4 == AddIf(e3, Get(p, "iat", 0) > t + 60, "Token issued in the future")
    IN [valid |-> Len(e4) = 0 /\ Len(w3) = 0, errors |-> e4, warnings |-> w3]

\* mutant: the checks stop at the first error
validate_lti_message_ShortCircuit(p, t) ==
    LET missing == {c \in RequiredClaims : ~Has(p, c)}
        e1 == AddIf(<< >>, missing # {}, "Missing required claims")
        w1 == AddIf(<< >>, Get(p, "version", None) # "1.3.0", "LTI version may not be fully supported")
        w2 == AddIf(w1, Get(p, "message_type", None) \notin SupportedTypes,
                    "Message type may not be fully supported")
        e2 == AddIf(e1, Len(e1) = 0 /\ Get(p, "deployment_id", None) # LTI_DEPLOYMENT_ID,
                    "Invalid deployment ID")
        w3 == AddIf(w2, Has(p, "target_link_uri") /\ ~StartsWithToolUrl(p.target_link_uri),
                    "Target link URI doesn't match tool URL")
        e3 == AddIf(e2, Len(e2) = 0 /\ Get(p, "exp", 0) < t, "Token has expired")
        e4 == AddIf(e3, Len(e3) = 0 /\ Get(p, "iat", 0) > t + 60, "Token issued in the future")
    IN [valid |-> Len(e4) = 0, errors |-> e4, warnings |-> w3]

\* mutant: exp is not compared with the clock
validate_lti_message_NoExpiryCheck(p, t) ==
    LET missing == {c \in RequiredClaims : ~Has(p, c)}
        e1 == AddIf(<< >>, missing # {}, "Missing required claims")
        w1 == AddIf(<< >>, Get(p, "version", None) # "1.3.0", "LTI version may not be fully supported")
        w2 == AddIf(w1, Get(p, "message_type", None) \notin SupportedTypes,
                    "Message type may not be fully supported")
        e2 == AddIf(e1, Get(p, "deployment_id", None) # LTI_DEPLOYMENT_ID, "Invalid deployment ID")
        w3 == AddIf(w2, Has(p, "target_link_uri") /\ ~StartsWithToolUrl(p.target_link_uri),
                    "Target link URI doesn't match tool URL")
        e4 == AddIf(e2, Get(p, "iat", 0) > t + 60, "Token issued in the future")
    IN [valid |-> Len(e4) = 0, errors |-> e4, warnings |-> w3]

validate_lti_message(p, t) ==
    LET missing == {c \in RequiredClaims : ~Has(p, c)}
        e1 == AddIf(<< >>, missing # {}, "Missing required claims")
        w1 == AddIf(<< >>, Get(p, "version", None) # "1.3.0", "LTI version may not be fully supported")
        w2 == AddIf(w1, Get(p, "message_type", None) \notin SupportedTypes,
                    "Message type may not be fully supported")
        e2 == AddIf(e1, Get(p, "deployment_id", None) # LTI_DEPLOYMENT_ID, "Invalid deployment ID")
        w3 == AddIf(w2, Has(p, "target_link_uri") /\ ~StartsWithToolUrl(p.target_link_uri),
                    "Target link URI doesn't match tool URL")
        e3 == AddIf(e2, Get(p, "exp", 0) < t, "Token has expired")
        e4 == AddIf(e3, Get(p, "iat", 0) > t + 60, "Token issued in the future")
    IN [valid |-> Len(e4) = 0, errors |-> e4, warnings |-> w3]

----------------------------------------------------------------------------
(* The grade service object and the key file when the process starts *)

\* an Optional[float]: None, or a number
NoExpiry == [set |-> FALSE, value |-> 0]

\* LTI13GradeService.__init__
InitialService == [service_url |-> None, access_token |-> None, token_expiry |-> NoExpiry]

\* the private keys that generate_keys.py may have written to the key file
ToolKeys == {"tool-key-1", "tool-key-2"}

InitRest ==
    /\ service = InitialService
    /\ key_file = "tool-key-1"
    /\ token_requests = << >>
    /\ threads = << >>
    /\ redirects = << >>
    /\ grants = {}

----------------------------------------------------------------------------
(* Operations *)

Init ==
    /\ envDEBUG \in EnvDebugValues
    /\ now = StartTime
    /\ cache = EmptyCache
    /\ InitRest
    /\ last = [op |-> "init"]

\* the clock moves on to a later instant of the grid
Tick ==
    /\ \E t \in TimeGrid : t > now /\ now' = t
    /\ last' = [op |-> "tick"]
    /\ UNCHANGED <<envDEBUG, cache>>
    /\ UNCHANGED restVars

\* a call of lti13_validator.get_platform_jwks(iss)
GetPlatformJwks ==
    \E iss \in Issuers :
      \E outcome \in FetchOutcomes(JwksUrl(iss)) :
        \E r \in {get_platform_jwks(cache, now, iss, outcome)} :
        /\ cache' = r.cache
        /\ last' = [op      |-> "get_platform_jwks",
                    iss     |-> iss,
                    at      |-> now,
                    had     |-> iss \in DOMAIN cache,
                    age     |-> IF iss \in DOMAIN cache
                                THEN now - cache[iss].timestamp ELSE 0,
                    cached  |-> IF iss \in DOMAIN cache
                                THEN cache[iss].jwks ELSE EmptyKeySet,
                    outcome |-> outcome,
                    gets    |-> r.gets,
                    ret     |-> r.ret]
        /\ UNCHANGED <<envDEBUG, now>>
        /\ UNCHANGED restVars

----------------------------------------------------------------------------
(* POST /lti/launch (lti13_launch) *)

\* models/lti.py, LTIRole.  A role IRI is the sequence of its parts: a role
\* name is 'in' the IRI when it is one of the parts
LisV2 == "http://purl.imsglobal.org/vocab/lis/v2"

ADMINISTRATOR      == <<LisV2, "institution", "person", "Administrator">>
INSTRUCTOR         == <<LisV2, "membership", "Instructor">>
LEARNER            == <<LisV2, "membership", "Learner">>
TEACHING_ASSISTANT == <<LisV2, "membership", "Instructor", "TeachingAssistant">>
CONTENT_DEVELOPER  == <<LisV2, "membership", "ContentDeveloper">>
MENTOR             == <<LisV2, "membership", "Mentor">>
MEMBER             == <<LisV2, "membership", "Member">>

LTIRole ==
    {ADMINISTRATOR, INSTRUCTOR, LEARNER, TEACHING_ASSISTANT, CONTENT_DEVELOPER,
     MENTOR, MEMBER}

\* 'name' in role_uri
Contains(role_uri, name) == \E i \in 1..Len(role_uri) : role_uri[i] = name

\* line 202-211: the role appended for one entry of the roles claim
MapRole(role_uri) ==
    IF Contains(role_uri, "Instructor") THEN INSTRUCTOR
    ELSE IF Contains(role_uri, "Learner") THEN LEARNER
    ELSE IF Contains(role_uri, "Administrator") THEN ADMINISTRATOR
    ELSE IF Contains(role_uri, "TeachingAssistant") THEN TEACHING_ASSISTANT
    ELSE MEMBER

\* mutant: only the first entry of the roles claim is mapped
ExtractRoles_FirstOnly(roles_claim) ==
    [i \in 1..(IF Len(roles_claim) = 0 THEN 0 ELSE 1) |-> MapRole(roles_claim[i])]

\* line 198-211: user_roles, one role per entry of the roles claim, in its order
ExtractRoles(roles_claim) ==
    [i \in 1..Len(roles_claim) |-> MapRole(roles_claim[i])]

\* a claim object that is not there: jwt_payload.get(claim, {})
EmptyClaim == [c \in {} |-> None]

\* line 213-243: what the session token is created from
TokenData(p) ==
    [user_id          |-> Get(p, "sub", "unknown"),
     context_id       |-> Get(Get(p, "context", EmptyClaim), "id", None),
     resource_link_id |-> Get(Get(p, "resource_link", EmptyClaim), "id", "unknown"),
     roles            |-> ExtractRoles(Get(p, "roles", << >>)),
     deployment_id    |-> Get(p, "deployment_id", "1")]

NotRun    == [valid |-> FALSE, errors |-> << >>, warnings |-> << >>]
NoSession == [user_id |-> "", context_id |-> None, resource_link_id |-> "",
              roles |-> << >>, deployment_id |-> ""]

\* mutant: only the first entry is put into the message
Join_FirstOnly(sep, seq) == IF Len(seq) = 0 THEN "" ELSE seq[1]

\* sep.join(seq)
RECURSIVE Join(_, _)
Join(sep, seq) ==
    IF Len(seq) = 0 THEN ""
    ELSE IF Len(seq) = 1 THEN seq[1]
    ELSE seq[1] \o sep \o Join(sep, Tail(seq))

\* the handler from line 165 on, for a posted id_token: the response status
\* and the detail of the HTTPException raised ("" when none is), the
\* validators' results (lti is meaningful only when ran_lti), the session
\* token's data (meaningful only with status 200) and the cache afterwards
lti13_launch(tok, c, t, outcome) ==
    LET v == validate_jwt_token(tok, LTI_CLIENT_ID, c, t, outcome) IN
    IF ~v.result.valid
    THEN [status |-> 401, detail |-> "Invalid JWT token: " \o v.result.error,
          validation |-> v, ran_lti |-> FALSE, lti |-> NotRun,
          session |-> NoSession]
    ELSE LET m == validate_lti_message(v.result.payload, t) IN
         IF ~m.valid
         THEN [status |-> 400, detail |-> "Invalid LTI message: " \o Join(", ", m.errors),
               validation |-> v, ran_lti |-> TRUE, lti |-> m,
               session |-> NoSession]
         ELSE [status |-> 200, detail |-> "", validation |-> v, ran_lti |-> TRUE, lti |-> m,
               session |-> TokenData(v.result.payload)]

\* does validate_jwt_token reach the HTTP fetch for this token
ReachesFetch(tok, c, t) ==
    /\ ~tok.malformed
    /\ Has(tok.payload, "iss")
    /\ Has(tok.payload, "aud")
    /\ ~CacheHit(c, t, tok.payload.iss)

NoFetch == [kind |-> "none", body |-> NoBody]

\* a launch request without an id_token: line 156-159
LaunchWithoutToken ==
    /\ last' = [op |-> "launch", posted |-> FALSE, status |-> 400,
                detail |-> "Missing id_token"]
    /\ UNCHANGED <<envDEBUG, now, cache>>
    /\ UNCHANGED restVars

\* the handler's run on the id_token tok, with what the fetch it may make does
LaunchOf(tok) ==
      \E outcome \in IF ReachesFetch(tok, cache, now)
                      THEN FetchOutcomes(JwksUrl(tok.payload.iss)) ELSE {NoFetch} :
        \E r \in {lti13_launch(tok, cache, now, outcome)} :
        /\ cache' = r.validation.cache
        /\ last' = [op         |-> "launch",
                    posted     |-> TRUE,
                    id_token   |-> tok,
                    at         |-> now,
                    outcome    |-> outcome,
                    gets       |-> r.validation.gets,
                    resolved   |-> r.validation.resolved,
                    jwks       |-> r.validation.jwks,
                    decoded    |-> r.validation.decoded,
                    validation |-> r.validation.result,
                    ran_lti    |-> r.ran_lti,
                    lti        |-> r.lti,
                    status     |-> r.status,
                    detail     |-> r.detail,
                    session    |-> r.session]
        /\ UNCHANGED <<envDEBUG, now>>
        /\ UNCHANGED restVars

\* a launch request carrying an id_token
LaunchWithToken == \E tok \in Tokens[now] : LaunchOf(tok)

Lti13Launch == LaunchWithoutToken \/ LaunchWithToken

\* the errors LTISignatureValidator.validate_lti_request may report
LegacyErrors == {"Invalid OAuth signature", "Invalid consumer key"}

\* what validate_lti_request may return to the LTI 1.1 launch handler
LegacyResults ==
    {[valid |-> TRUE, errors |-> << >>]}
        \cup {[valid |-> FALSE, errors |-> es] :
                    es \in UNION {[1..n -> LegacyErrors] : n \in 1..2}}

\* routes/lti.py line 132-141: the LTI 1.1 handler's answer to a validation
\* result
lti_launch(validation_result) ==
    IF ~validation_result.valid
    THEN [status |-> 401,
          detail |-> "Invalid LTI request: " \o Join(", ", validation_result.errors)]
    ELSE [status |-> 200, detail |-> ""]

\* a launch request on the LTI 1.1 endpoint
LtiLaunch ==
    /\ \E validation_result \in LegacyResults :
         \E r \in {lti_launch(validation_result)} :
            last' = [op |-> "lti_launch", validation_result |-> validation_result,
                     status |-> r.status, detail |-> r.detail]
    /\ UNCHANGED <<envDEBUG, now, cache>>
    /\ UNCHANGED restVars

NextJwks == Tick \/ GetPlatformJwks

SpecJwks == Init /\ [][NextJwks]_vars

Next == Lti13Launch \/ LtiLaunch

Spec == Init /\ [][Next]_vars

----------------------------------------------------------------------------
(* Launches of the registered platform that carry a roles claim *)

MaxRoles == 3

\* the role IRIs a platform may send: those of LTIRole, a system role, a
\* teaching-assistant IRI outside the Instructor sub-vocabulary, and one that
\* names no role the handler knows
RoleIris ==
    LTIRole \cup {<<LisV2, "system", "person", "Administrator">>,
                  <<LisV2, "membership", "TeachingAssistant">>,
                  <<LisV2, "membership", "Officer">>}

RoleClaims == UNION {[1..n -> RoleIris] : n \in 0..MaxRoles}

RolesToken(roles_claim, t) ==
    [MintedToken(LTI_PLATFORM_ISSUER, PlatformKey, t)
        EXCEPT !.payload = SetClaim(@, "roles", roles_claim)]

InitRoles ==
    /\ envDEBUG \in EnvDebugValues
    /\ now = StartTime
    /\ cache = EmptyCache
    /\ InitRest
    /\ last \in {[op |-> "request", fn |-> "lti13_launch",
                  id_token |-> RolesToken(r, StartTime)] : r \in RoleClaims}

\* the launch request is handled
LaunchRequested ==
    /\ last.op = "request" /\ last.fn = "lti13_launch"
    /\ LaunchOf(last.id_token)

NextRoles == LaunchRequested

SpecRoles == InitRoles /\ [][NextRoles]_vars

----------------------------------------------------------------------------
(* Single calls of the two validators: the call's arguments are drawn when   *)
(* the request is made, and the call is then made once.                      *)

\* what header.get('kid') may be: None, '', or a key id
KidValues == {Absent, "", "k1", "k2"}

\* the launch of the registered platform with the header's kid and the signing
\* key varied
KidTokens(t) ==
    {[MintedToken(LTI_PLATFORM_ISSUER, PlatformKey, t) EXCEPT !.kid = k, !.signer = n] :
        k \in KidValues, n \in {PlatformKey, OtherKey}}

MaxKeys == 2

\* the entries a published key set may hold
JwkChoices ==
    {Jwk(kid, use, n) : kid \in {"", "k1", "k2"}, use \in {"sig", "enc"},
                        n \in {PlatformKey, OtherKey}}

\* fetches that succeed with a key set of up to MaxKeys entries
KeySetOutcomes ==
    {[kind |-> "ok", body |-> [keys |-> ks]] :
        ks \in UNION {[1..n -> JwkChoices] : n \in 0..MaxKeys}}

\* the arguments of a validate_jwt_token call and what the fetch it may make does
JwtRequests ==
    {[op |-> "request", fn |-> "validate_jwt_token", id_token |-> tok,
      audience |-> a, outcome |-> o] :
        tok \in KidTokens(StartTime), a \in {None},
        o \in KeySetOutcomes \cup {[kind |-> "ok", body |-> UnusableJwks]}}
    \cup
    UNION {{[op |-> "request", fn |-> "validate_jwt_token", id_token |-> tok,
             audience |-> a, outcome |-> o] :
                a \in {None, LTI_CLIENT_ID},
                o \in IF ReachesFetch(tok, EmptyCache, StartTime)
                      THEN FetchOutcomes(JwksUrl(tok.payload.iss)) ELSE {NoFetch}} :
            tok \in Tokens[StartTime]}

MaxPayloadFaults == 3

\* the payloads that differ from p in one claim
OnePayloadFault(p, t) ==
         {DelClaim(p, c) : c \in RequiredClaims}
    \cup {SetClaim(p, "version", "1.2.0")}
    \cup {SetClaim(p, "message_type", "LtiUnknownRequest")}
    \cup {SetClaim(p, "deployment_id", OTHER_DEPLOYMENT_ID)}
    \cup {SetClaim(p, "target_link_uri", u) :
                u \in {LTI_TOOL_URL \o "/lti/launch", "https://elsewhere.example/launch"}}
    \cup {SetClaim(p, "exp", e) : e \in {t - 1, t}}
    \cup {SetClaim(p, "iat", i) : i \in {t + 60, t + 61}}

RECURSIVE WithPayloadFaults(_, _, _)
WithPayloadFaults(S, t, n) ==
    IF n = 0 THEN S
    ELSE WithPayloadFaults(S \cup UNION {OnePayloadFault(p, t) : p \in S}, t, n - 1)

\* the arguments of a validate_lti_message call
LtiRequests ==
    {[op |-> "request", fn |-> "validate_lti_message", jwt_payload |-> p] :
        p \in WithPayloadFaults({GoodPayload(LTI_PLATFORM_ISSUER, StartTime)},
                                StartTime, MaxPayloadFaults)}

InitValidators ==
    /\ envDEBUG \in EnvDebugValues
    /\ now = StartTime
    /\ cache = EmptyCache
    /\ InitRest
    /\ last \in JwtRequests \cup LtiRequests

\* a call of lti13_validator.validate_jwt_token(token, audience)
ValidateJwtToken ==
    /\ last.op = "request" /\ last.fn = "validate_jwt_token"
    /\ \E r \in {validate_jwt_token(last.id_token, last.audience, cache, now, last.outcome)} :
        /\ cache' = r.cache
        /\ last' = [op       |-> "validate_jwt_token",
                    id_token |-> last.id_token,
                    audience |-> last.audience,
                    at       |-> now,
                    outcome  |-> last.outcome,
                    gets     |-> r.gets,
                    resolved |-> r.resolved,
                    jwks     |-> r.jwks,
                    used     |-> r.used,
                    decoded  |-> r.decoded,
                    exception |-> r.exception,
                    raised   |-> r.raised,
                    result   |-> r.result]
    /\ UNCHANGED <<envDEBUG, now>>
    /\ UNCHANGED restVars

\* a call of lti13_validator.validate_lti_message(jwt_payload)
ValidateLtiMessage ==
    /\ last.op = "request" /\ last.fn = "validate_lti_message"
    /\ last' = [op          |-> "validate_lti_message",
                jwt_payload |-> last.jwt_payload,
                at          |-> now,
                result      |-> validate_lti_message(last.jwt_payload, now)]
    /\ UNCHANGED <<envDEBUG, now, cache>>
    /\ UNCHANGED restVars

NextValidators == ValidateJwtToken \/ ValidateLtiMessage

SpecValidators == InitValidators /\ [][NextValidators]_vars

----------------------------------------------------------------------------
(* LTIOutcomesService (services/grade_service.py): send_grade and what it    *)
(* calls.  Hashes, signatures and URL-encodings are the terms they are       *)
(* computed from.                                                           *)

CONSUMER_KEY    == "consumer-key"
CONSUMER_SECRET == "consumer-secret"
OUTCOMES_URL    == "https://lms.example/outcomes"

\* base64(sha1(body)) and base64(hmac_sha1(key, base))
Sha1B64(body) == [b64sha1 |-> body]

HmacSha1B64(key, base) == [b64hmac_sha1 |-> base, key |-> key]

\* urllib.parse.quote_plus
QuotePlus(v) == [quote_plus |-> v]

\* the XML document of the request, by the values put into the template
create_outcomes_xml(sourcedid, grade, message_identifier) ==
    [imsx_messageIdentifier |-> message_identifier,
     sourcedId              |-> sourcedid,
     textString             |-> grade]

create_oauth_params(t, nonce) ==
    [oauth_consumer_key     |-> CONSUMER_KEY,
     oauth_signature_method |-> "HMAC-SHA1",
     oauth_timestamp        |-> t,
     oauth_nonce            |-> nonce,
     oauth_version          |-> "1.0",
     oauth_body_hash        |-> ""]

\* line 108-144: the signature, and oauth_params as the call leaves the dict
generate_outcomes_signature_HashOfOtherBody(method, url, body, oauth_params) ==
    LET other  == [body EXCEPT !.imsx_messageIdentifier = "another-message"]
        params == [oauth_params EXCEPT !.oauth_body_hash = Sha1B64(other)]
        parameter_string == [k \in DOMAIN params |-> QuotePlus(params[k])]
        signature_base == <<method, QuotePlus(url), QuotePlus(parameter_string)>>
    IN [oauth_params |-> params,
        signature    |-> HmacSha1B64(<<QuotePlus(CONSUMER_SECRET), "&">>, signature_base)]

generate_outcomes_signature(method, url, body, oauth_params) ==
    LET params == [oauth_params EXCEPT !.oauth_body_hash = Sha1B64(body)]
        parameter_string == [k \in DOMAIN params |-> QuotePlus(params[k])]
        signature_base == <<method, QuotePlus(url), QuotePlus(parameter_string)>>
    IN [oauth_params |-> params,
        signature    |-> HmacSha1B64(<<QuotePlus(CONSUMER_SECRET), "&">>, signature_base)]

create_auth_header(oauth_params) ==
    [scheme |-> "OAuth",
     parts  |-> [k \in DOMAIN oauth_params |-> QuotePlus(oauth_params[k])]]

\* the text of an XML element: Absent when the element is not there, None
\* when it is there and empty
ElementTexts(texts) == {Absent, None} \cup texts

\* response.text, by what ET.fromstring and the find calls make of it
XmlBodies ==
    {[wellformed |-> FALSE, has_status |-> FALSE,
      code_major |-> Absent, severity |-> Absent, description |-> Absent]}
    \cup
    {[wellformed |-> TRUE, has_status |-> FALSE,
      code_major |-> Absent, severity |-> Absent, description |-> Absent]}
    \cup
    {[wellformed |-> TRUE, has_status |-> TRUE,
      code_major |-> c, severity |-> v, description |-> d] :
        c \in ElementTexts({"success", "Success", "failure"}),
        v \in ElementTexts({"status"}),
        d \in ElementTexts({"Score received"})}

StatusCodes == {200, 201, 204, 404, 500}

\* what requests.post(outcomes_url, ...) may do
GradeResponses ==
    {[kind |-> "transport_error", status_code |-> 0, text |-> b] :
        b \in {x \in XmlBodies : ~x.wellformed}}
    \cup
    {[kind |-> "response", status_code |-> c, text |-> b] :
        c \in StatusCodes, b \in XmlBodies}

\* str.lower() for the texts of the model
LowerText_Identity(text) == text

LowerText(text) == IF text = "Success" THEN "success" ELSE text

\* a call that returns a result, and a call that an exception leaves
Returns(result) == [raised |-> FALSE, exception |-> None, result |-> result]

Raises(exception) == [raised |-> TRUE, exception |-> exception, result |-> [success |-> FALSE]]

\* line 156-190
parse_outcomes_response(response) ==
    LET base == [success       |-> FALSE,
                 status_code   |-> response.status_code,
                 response_body |-> response.text]
        with(r, key, value) == [k \in DOMAIN r \cup {key} |-> IF k = key THEN value ELSE r[k]]
        body == response.text
    IN IF response.status_code # 200
       THEN Returns(with(with(base, "error", "HTTP " \o ToString(response.status_code)),
                         "code", "HTTP_ERROR"))
       ELSE IF ~body.wellformed
       THEN Returns(with(with(base, "error", "XML Parse Error"), "code", "XML_PARSE_ERROR"))
       ELSE IF ~body.has_status
       THEN Returns(base)
       ELSE LET code_major  == IF body.code_major # Absent THEN body.code_major ELSE "unknown"
                severity    == IF body.severity # Absent THEN body.severity ELSE "unknown"
                description == IF body.description # Absent THEN body.description
                               ELSE "No description"
                r == with(with(with(base, "code_major", code_major), "severity", severity),
                          "description", description)
            IN IF code_major = None
               THEN Raises("AttributeError")
               ELSE Returns([r EXCEPT !.success = LowerText(code_major) = "success"])

\* line 21-65: the request that is posted and what the call comes to
send_grade(outcomes_url, sourcedid, grade, message_identifier, t, uuids, response) ==
    LET mid == IF message_identifier = None \/ message_identifier = ""
               THEN uuids[1] ELSE message_identifier
        xml_payload == create_outcomes_xml(sourcedid, grade, mid)
        signed == generate_outcomes_signature("POST", outcomes_url, xml_payload,
                                              create_oauth_params(t, uuids[2]))
        oauth_params == [k \in DOMAIN signed.oauth_params \cup {"oauth_signature"} |->
                            IF k = "oauth_signature" THEN signed.signature
                            ELSE signed.oauth_params[k]]
        request == [url     |-> outcomes_url,
                    data    |-> xml_payload,
                    headers |-> [Authorization |-> create_auth_header(oauth_params),
                                 Content_Type  |-> "application/xml",
                                 User_Agent    |-> "FastAPI-LTI-Tool/1.0"],
                    timeout |-> 30]
        outcome == IF response.kind = "transport_error"
                   THEN Returns([success |-> FALSE, error |-> "transport error",
                                 code |-> "REQUEST_ERROR"])
                   ELSE parse_outcomes_response(response)
    IN [request |-> request, raised |-> outcome.raised, exception |-> outcome.exception,
        result |-> outcome.result]

\* the arguments of a send_grade call
GradeRequests ==
    {[op |-> "request", fn |-> "send_grade", outcomes_url |-> OUTCOMES_URL,
      sourcedid |-> "sourcedid-1", grade |-> g, message_identifier |-> m] :
        g \in {0, 1}, m \in {None, "", "msg-1"}}

InitGrade ==
    /\ envDEBUG \in EnvDebugValues
    /\ now = StartTime
    /\ cache = EmptyCache
    /\ InitRest
    /\ last \in GradeRequests

\* a call of LTIOutcomesService(CONSUMER_KEY, CONSUMER_SECRET).send_grade
SendGrade ==
    /\ last.op = "request" /\ last.fn = "send_grade"
    /\ \E response \in GradeResponses :
        \E r \in {send_grade(last.outcomes_url, last.sourcedid, last.grade,
                             last.message_identifier, now, <<"uuid-1", "uuid-2">>,
                             response)} :
          last' = [op        |-> "send_grade",
                   at        |-> now,
                   request   |-> r.request,
                   response  |-> response,
                   raised    |-> r.raised,
                   exception |-> r.exception,
                   result    |-> r.result]
    /\ UNCHANGED <<envDEBUG, now, cache>>
    /\ UNCHANGED restVars

NextGrade == SendGrade

SpecGrade == InitGrade /\ [][NextGrade]_vars

----------------------------------------------------------------------------
(* LTI13GradeService (services/lti13_grade_service.py), the Assignment and   *)
(* Grade Service client, and LTI13Validator.create_tool_jwt that signs its   *)
(* client assertions.                                                        *)

LTI_PLATFORM_TOKEN_URL == "https://lms.example/mod/lti/token.php"
LTI_KEY_ID             == "lti-key-1"

\* seconds a client assertion lives, and the lifetime of an access token
\* whose response names none
assertion_lifetime == 3600
default_expires_in == 3600

\* the key file: a private key, or Absent when the file is missing or holds
\* no PEM key
KeyFiles == ToolKeys \cup {Absent}

\* f"lti-service-token-{int(datetime.utcnow().timestamp())}"
Jti(t) == [prefix |-> "lti-service-token-", seconds |-> t]

NoAssertion ==
    [kid |-> Absent, signer |-> Absent,
     payload |-> [iss |-> "", sub |-> "", aud |-> "", jti |-> Jti(0), iat |-> 0, exp |-> 0]]

\* LTI13Validator.create_tool_jwt: payload.update(...) overwrites iss and aud
\* and adds iat and exp; the key is read from the key file in every call
create_tool_jwt(payload, t, file) ==
    LET updated == [c \in DOMAIN payload \cup {"iss", "aud", "iat", "exp"} |->
                        CASE c = "iss" -> LTI_TOOL_URL
                          [] c = "aud" -> LTI_PLATFORM_ISSUER
                          [] c = "iat" -> t
                          [] c = "exp" -> t + assertion_lifetime
                          [] OTHER     -> payload[c]]
    IN IF file = Absent
       THEN [raised |-> TRUE, token |-> NoAssertion]
       ELSE [raised |-> FALSE,
             token  |-> [kid |-> LTI_KEY_ID, signer |-> file, payload |-> updated]]

\* the access tokens the platform hands out
AccessTokens == {"access-token-1", "access-token-2"}

ShortLife == 1

\* the expires_in member of a token response: not there, a number, a string
ExpiresIn ==
    {[kind |-> "absent", value |-> 0],
     [kind |-> "number", value |-> ShortLife],
     [kind |-> "string", value |-> default_expires_in]}

\* response.json() of the token endpoint: no JSON, or an object
TokenBodies ==
    {[json |-> FALSE, access_token |-> Absent, expires_in |-> [kind |-> "absent", value |-> 0]]}
    \cup
    {b \in {[json |-> TRUE, access_token |-> a, expires_in |-> e] :
                a \in AccessTokens \cup {Absent}, e \in ExpiresIn} :
        b.access_token = "access-token-1" \/ b.expires_in.kind = "absent"}

\* a body that grants a token and names no lifetime
GrantBody ==
    [json |-> TRUE, access_token |-> "access-token-1",
     expires_in |-> [kind |-> "absent", value |-> 0]]

TokenStatusCodes == {200, 302, 500}

\* what requests.post(token_url, ...) may do
TokenResponses ==
    {[kind |-> "transport_error", status_code |-> 0, body |-> b] :
        b \in {x \in TokenBodies : ~x.json}}
    \cup
    {r \in {[kind |-> "response", status_code |-> c, body |-> b] :
                c \in TokenStatusCodes, b \in TokenBodies} :
        \/ r.status_code = 200
        \/ r.status_code = 500 /\ ~r.body.json
        \/ r.status_code = 302 /\ r.body = GrantBody}

\* no request was posted
NoResponse ==
    [kind |-> "none", status_code |-> 0,
     body |-> [json |-> FALSE, access_token |-> Absent,
               expires_in |-> [kind |-> "absent", value |-> 0]]]

\* response.raise_for_status() raises for the 4xx and 5xx statuses
RaiseForStatus(status_code) == status_code \in 400..599

\* line 24-25: a cached token is there and has not expired
CachedTokenValid_Never(svc, t) == FALSE

CachedTokenValid(svc, t) ==
    /\ svc.access_token # None /\ svc.access_token # ""
    /\ svc.token_expiry.set /\ svc.token_expiry.value # 0
    /\ t < svc.token_expiry.value

\* line 40-52: the request to the token endpoint
TokenRequest(client_assertion) ==
    [url  |-> LTI_PLATFORM_TOKEN_URL,
     data |-> [grant_type            |-> "client_credentials",
               client_assertion_type |->
                   "urn:ietf:params:oauth:client-assertion-type:jwt-bearer",
               client_assertion      |-> client_assertion,
               scope |-> "https://purl.imsglobal.org/spec/lti-ags/scope/score"]]

\* line 21-64: the service object after the call, the requests it posted,
\* and the token it returns or the ValueError it raises
get_access_token(svc, ags_claim, t, file, response) ==
    LET client_assertion_payload ==
            [iss |-> LTI_CLIENT_ID, sub |-> LTI_CLIENT_ID,
             aud |-> LTI_PLATFORM_TOKEN_URL, jti |-> Jti(t)]
        signed == create_tool_jwt(client_assertion_payload, t, file)
        posts  == << TokenRequest(signed.token) >>
        fails(s, p) == [service |-> s, posts |-> p, raised |-> TRUE,
                        exception |-> "ValueError: Token request failed", ret |-> None]
    IN IF CachedTokenValid(svc, t)
       THEN [service |-> svc, posts |-> << >>, raised |-> FALSE,
             exception |-> None, ret |-> svc.access_token]
       ELSE IF signed.raised THEN fails(svc, << >>)
       ELSE IF response.kind = "transport_error" THEN fails(svc, posts)
       ELSE IF RaiseForStatus(response.status_code) THEN fails(svc, posts)
       ELSE IF ~response.body.json THEN fails(svc, posts)
       ELSE IF response.body.access_token = Absent THEN fails(svc, posts)
       ELSE LET stored == [svc EXCEPT !.access_token = response.body.access_token]
                expires_in == response.body.expires_in
            IN IF expires_in.kind = "string" THEN fails(stored, posts)
               ELSE [service |-> [stored EXCEPT !.token_expiry =
                                    [set |-> TRUE,
                                     value |-> t + (IF expires_in.kind = "absent"
                                                    THEN default_expires_in
                                                    ELSE expires_in.value)]],
                     posts |-> posts, raised |-> FALSE, exception |-> None,
                     ret |-> response.body.access_token]

LINEITEMS_1 == "https://lms.example/mod/lti/services.php/2/lineitems/"
LINEITEMS_2 == "https://other.example/api/lti/courses/7/line_items"

\* the AGS claim of a launch, by its lineitems member
AgsClaims ==
    {[lineitems |-> l] :
        l \in {Absent, LINEITEMS_1, LINEITEMS_2}}

\* lineitems_url.rstrip('/') for the URLs of the model
RStripSlash(url) ==
    IF url = LINEITEMS_1
    THEN "https://lms.example/mod/lti/services.php/2/lineitems" ELSE url

ScoreStatusCodes == {200, 201, 204, 400, 500}

\* what requests.post(scores_url, ...) may do
ScoreResponses ==
    {[kind |-> "transport_error", status_code |-> 0]}
    \cup {[kind |-> "response", status_code |-> c] : c \in ScoreStatusCodes}

\* line 115: the statuses that count as a submitted grade
ScoreAccepted_Any2xx(status_code) == status_code \in 200..299

ScoreAccepted(status_code) == status_code \in {200, 201}

\* line 86-113: the request that posts the score
ScoreRequest(lineitems_url, access_token, user_id, score_given, score_maximum, comment, t) ==
    LET score_data == [timestamp        |-> t,
                       scoreGiven       |-> score_given,
                       scoreMaximum     |-> score_maximum,
                       userId           |-> user_id,
                       activityProgress |-> "Completed",
                       gradingProgress  |-> "FullyGraded"]
    IN [url     |-> RStripSlash(lineitems_url) \o "/scores",
        json    |-> IF comment # None /\ comment # ""
                    THEN [k \in DOMAIN score_data \cup {"comment"} |->
                            IF k = "comment" THEN comment ELSE score_data[k]]
                    ELSE score_data,
        headers |-> [Authorization |-> [scheme |-> "Bearer", token |-> access_token],
                     Content_Type  |-> "application/vnd.ims.lis.v1.score+json"]]

\* line 66-124: every exception is caught and turned into False
submit_grade(svc, user_id, score_given, score_maximum, ags_claim, comment, t, file, token_response, score_response) ==
    LET got == get_access_token(svc, ags_claim, t, file, token_response)
        lineitems_url == ags_claim.lineitems
        request == ScoreRequest(lineitems_url, got.ret, user_id, score_given,
                                score_maximum, comment, t)
        out(ret, scores) == [service |-> got.service, posts |-> got.posts,
                             scores |-> scores, raised |-> FALSE, ret |-> ret]
    IN IF got.raised THEN out(FALSE, << >>)
       ELSE IF lineitems_url = Absent \/ lineitems_url = "" THEN out(FALSE, << >>)
       ELSE IF score_response.kind = "transport_error" THEN out(FALSE, << request >>)
       ELSE out(ScoreAccepted(score_response.status_code), << request >>)

MaxTokenRequests == 2

MaxSubmits == 2

\* the token requests of a call, with the claim the call was made for
Recorded(posts, ags_claim) ==
    [i \in 1..Len(posts) |-> [request |-> posts[i], ags_claim |-> ags_claim]]

\* the response of the token endpoint, when the call gets as far as posting
TokenResponsesFor(svc, t, file) ==
    IF CachedTokenValid(svc, t) \/ file = Absent THEN {NoResponse} ELSE TokenResponses

\* the instants at which the service is called: when the process starts,
\* when a short-lived token expires, when a token of the default lifetime
\* expires
AgsTimes == {StartTime, StartTime + ShortLife, StartTime + default_expires_in}

\* the clock moves on to a later one of these instants
TickAgs ==
    /\ \E t \in AgsTimes : t > now /\ now' = t
    /\ last' = [op |-> "tick"]
    /\ UNCHANGED <<envDEBUG, cache>>
    /\ UNCHANGED restVars

InitAgs ==
    /\ envDEBUG \in EnvDebugValues
    /\ now = StartTime
    /\ cache = EmptyCache
    /\ InitRest
    /\ last = [op |-> "init"]

\* a call of lti13_grade_service.get_access_token(ags_claim)
GetAccessToken ==
    \E ags_claim \in {c \in AgsClaims : c.lineitems # Absent} :
      \E response \in TokenResponsesFor(service, now, key_file) :
        \E r \in {get_access_token(service, ags_claim, now, key_file, response)} :
          /\ Len(token_requests) + Len(r.posts) <= MaxTokenRequests
          /\ service' = r.service
          /\ token_requests' = token_requests \o Recorded(r.posts, ags_claim)
          /\ last' = [op        |-> "get_access_token",
                      at        |-> now,
                      ags_claim |-> ags_claim,
                      before    |-> service,
                      key       |-> key_file,
                      response  |-> response,
                      posts     |-> r.posts,
                      raised    |-> r.raised,
                      exception |-> r.exception,
                      ret       |-> r.ret]
          /\ UNCHANGED <<envDEBUG, now, cache, key_file, threads, redirects, grants>>

\* the calls of submit_grade made so far
Submits == IF last.op = "submit_grade" THEN last.nth ELSE 0

\* a call of lti13_grade_service.submit_grade(...)
SubmitGrade ==
    /\ Submits < MaxSubmits
    /\ \E ags_claim \in AgsClaims, comment \in {None, "well done"} :
      \E token_response \in TokenResponsesFor(service, now, key_file),
         score_response \in ScoreResponses :
        \E r \in {submit_grade(service, "user-1", 8, 10, ags_claim, comment, now,
                               key_file, token_response, score_response)} :
          /\ (r.scores = << >>) => score_response.kind = "transport_error"
          /\ service' = r.service
          /\ token_requests' = token_requests \o Recorded(r.posts, ags_claim)
          /\ last' = [op             |-> "submit_grade",
                      nth            |-> Submits + 1,
                      at             |-> now,
                      ags_claim      |-> ags_claim,
                      before         |-> service,
                      key            |-> key_file,
                      token_response |-> token_response,
                      score_response |-> score_response,
                      posts          |-> r.posts,
                      scores         |-> r.scores,
                      raised         |-> r.raised,
                      ret            |-> r.ret]
          /\ UNCHANGED <<envDEBUG, now, cache, key_file, threads, redirects, grants>>

\* the key file is replaced or removed while the process runs
ReplaceKeyFile ==
    /\ \E file \in KeyFiles : file # key_file /\ key_file' = file
    /\ last' = [op |-> "replace_key_file"]
    /\ UNCHANGED <<envDEBUG, now, cache, service, token_requests, threads, redirects, grants>>

NextAgs == TickAgs \/ GetAccessToken \/ ReplaceKeyFile

SpecAgs == InitAgs /\ [][NextAgs]_vars

NextScores == SubmitGrade

SpecScores == InitAgs /\ [][NextScores]_vars

----------------------------------------------------------------------------
(* get_platform_jwks called by several requests at once: a call is the       *)
(* steps between which another call can run, namely the look into the       *)
(* cache, the HTTP GET, and the assignment of the new entry.                 *)

MaxThreads == 2

ThreadIds == 1..MaxThreads

\* the issuers of the launches that arrive together, and the instants at
\* which their steps run
CalledIssuers == {LTI_PLATFORM_ISSUER, OTHER_ISSUER}

StepTimes == {StartTime, StartTime + 1, StartTime + cache_expiry}

\* a thread that is in no call
Idle == [pc |-> "idle", iss |-> None, jwks |-> EmptyKeySet]

InitConcurrent ==
    /\ envDEBUG \in EnvDebugValues
    /\ now = StartTime
    /\ cache = EmptyCache
    /\ service = InitialService
    /\ key_file = "tool-key-1"
    /\ token_requests = << >>
    /\ redirects = << >>
    /\ grants = {}
    /\ threads = [th \in ThreadIds |-> Idle]
    /\ last = [op |-> "init"]

\* what a step leaves alone
StepUnchanged == UNCHANGED <<envDEBUG, now, service, key_file, token_requests, redirects, grants>>

\* line 43: a request calls get_platform_jwks(platform_issuer)
Enter(th) ==
    /\ threads[th].pc = "idle"
    /\ \E iss \in CalledIssuers :
        threads' = [threads EXCEPT ![th] = [pc |-> "check", iss |-> iss, jwks |-> EmptyKeySet]]
    /\ last' = [op |-> "enter"]
    /\ UNCHANGED cache
    /\ StepUnchanged

\* line 46-49: a fresh entry is returned, otherwise the call goes on
CheckCache(th) ==
    /\ threads[th].pc = "check"
    /\ threads' = [threads EXCEPT ![th] =
                    IF CacheHit(cache, now, threads[th].iss) THEN Idle
                    ELSE [@ EXCEPT !.pc = "fetch"]]
    /\ last' = [op |-> "check"]
    /\ UNCHANGED cache
    /\ StepUnchanged

\* line 51-62: the GET; a failure returns {"keys": []} and stores nothing
Fetch(th) ==
    /\ threads[th].pc = "fetch"
    /\ \E outcome \in FetchOutcomes(JwksUrl(threads[th].iss)) :
        threads' = [threads EXCEPT ![th] =
                        IF outcome.kind = "ok"
                        THEN [@ EXCEPT !.pc = "store", !.jwks = outcome.body]
                        ELSE Idle]
    /\ last' = [op |-> "fetch"]
    /\ UNCHANGED cache
    /\ StepUnchanged

\* line 64-69: the entry is assigned and the key set returned
Store(th) ==
    /\ threads[th].pc = "store"
    /\ cache' = CacheStore(cache, now, threads[th].iss, threads[th].jwks)
    /\ threads' = [threads EXCEPT ![th] = Idle]
    /\ last' = [op |-> "store"]
    /\ StepUnchanged

\* the clock moves on while calls are under way
TickConcurrent ==
    /\ \E t \in StepTimes : t > now /\ now' = t
    /\ last' = [op |-> "tick"]
    /\ UNCHANGED <<envDEBUG, cache, service, key_file, token_requests, threads, redirects, grants>>

NextConcurrent ==
    \/ TickConcurrent
    \/ \E th \in ThreadIds : Enter(th)
    \/ \E th \in ThreadIds : CheckCache(th)
    \/ \E th \in ThreadIds : Fetch(th)
    \/ \E th \in ThreadIds : Store(th)

SpecConcurrent == InitConcurrent /\ [][NextConcurrent]_vars

----------------------------------------------------------------------------
(* Repeated validations while the clock moves on: the key-set cache lives    *)
(* across the calls.                                                         *)

\* the platform's key set after it rotated its signing key to kid k2
RotatedJwks == [keys |-> << Jwk("k2", "sig", PlatformKey) >>]

\* what a fetch of the platform's key-set URL may do over time
RotatingOutcomes ==
    {[kind |-> "transport_error", body |-> NoBody]}
        \cup {[kind |-> "ok", body |-> d] : d \in {PlatformJwks, NoKeysJwks, RotatedJwks}}

\* launches the platform mints at time t, signed with its key under either kid
RotatingTokens(t) ==
    {[MintedToken(LTI_PLATFORM_ISSUER, PlatformKey, t) EXCEPT !.kid = k] : k \in {"k1", "k2"}}

\* a call of lti13_validator.validate_jwt_token(token) at the current time,
\* with the cache the earlier calls left
Revalidate ==
    \E tok \in RotatingTokens(now) :
      \E outcome \in IF ReachesFetch(tok, cache, now) THEN RotatingOutcomes ELSE {NoFetch} :
        \E r \in {validate_jwt_token(tok, None, cache, now, outcome)} :
        /\ cache' = r.cache
        /\ last' = [op       |-> "validate_jwt_token",
                    id_token |-> tok,
                    at       |-> now,
                    fresh    |-> CacheHit(cache, now, tok.payload.iss),
                    cached   |-> IF tok.payload.iss \in DOMAIN cache
                                 THEN cache[tok.payload.iss].jwks ELSE EmptyKeySet,
                    outcome  |-> outcome,
                    gets     |-> r.gets,
                    jwks     |-> r.jwks,
                    result   |-> r.result]
        /\ UNCHANGED <<envDEBUG, now>>
        /\ UNCHANGED restVars

NextCached == Tick \/ Revalidate

SpecCached == Init /\ [][NextCached]_vars

----------------------------------------------------------------------------
(* The OIDC login initiation and the launch that follows it *)

MaxLogins == 2

\* the values secrets.token_urlsafe(32) may return
StateValues == {"state-1", "state-2"}
NonceValues == {"nonce-1", "nonce-2"}

\* the parameters of a login initiation request
LoginParams ==
    {[iss |-> i, login_hint |-> "user-1", target_link_uri |-> LTI_TOOL_URL \o "/lti/launch"] :
        i \in {LTI_PLATFORM_ISSUER, OTHER_ISSUER}}
        \cup {[iss |-> LTI_PLATFORM_ISSUER, target_link_uri |-> LTI_TOOL_URL \o "/lti/launch"]}

\* line 90-144: the handler's answer, with the state and nonce it generated
\* (None when it answers 400); nothing of it is kept by the tool
oidc_login(params, state, nonce) ==
    IF \E p \in {"iss", "login_hint", "target_link_uri"} : ~Has(params, p)
    THEN [status |-> 400, detail |-> "Missing required parameters", state |-> None,
          nonce |-> None]
    ELSE IF params.iss # LTI_PLATFORM_ISSUER
    THEN [status |-> 400, detail |-> "Invalid issuer", state |-> None, nonce |-> None]
    ELSE [status |-> 302, detail |-> "", state |-> state, nonce |-> nonce]

\* a request on /lti13/login; the browser is redirected to the platform with
\* the generated state and nonce
OidcLogin ==
    /\ Len(redirects) < MaxLogins
    /\ \E params \in LoginParams, state \in StateValues, nonce \in NonceValues :
         \E r \in {oidc_login(params, state, nonce)} :
            /\ redirects' = IF r.status = 302
                            THEN Append(redirects, [state |-> r.state, nonce |-> r.nonce])
                            ELSE redirects
            /\ last' = [op |-> "oidc_login", params |-> params, status |-> r.status,
                        detail |-> r.detail, state |-> r.state]
    /\ UNCHANGED <<envDEBUG, now, cache, service, key_file, token_requests, threads, grants>>

\* the state form field a launch request may carry
PostedStates == StateValues \cup {Absent}

\* launches the platform mints at time t for either nonce
NonceTokens(t) ==
    {[MintedToken(LTI_PLATFORM_ISSUER, PlatformKey, t) EXCEPT !.payload.nonce = n] :
        n \in NonceValues}

\* a launch request carrying id_token and state: the handler (line 147-265)
\* reads the state for its log only
LaunchWithState ==
    \E tok \in NonceTokens(now), state \in PostedStates :
      \E outcome \in IF ReachesFetch(tok, cache, now)
                      THEN FetchOutcomes(JwksUrl(tok.payload.iss)) ELSE {NoFetch} :
        \E r \in {lti13_launch(tok, cache, now, outcome)} :
        /\ cache' = r.validation.cache
        /\ last' = [op       |-> "launch",
                    id_token |-> tok,
                    state    |-> state,
                    status   |-> r.status,
                    detail   |-> r.detail]
        /\ UNCHANGED <<envDEBUG, now>>
        /\ UNCHANGED restVars

NextOidc == OidcLogin \/ LaunchWithState

SpecOidc == Init /\ [][NextOidc]_vars

----------------------------------------------------------------------------
(* The session token of a launch and the role checks made with it *)

\* the secret SecurityManager signs session tokens with, and another one
SESSION_SECRET == "session-secret"
OTHER_SECRET   == "other-secret"

\* SecurityManager.create_access_token(data): a token that carries data,
\* signed with the tool's secret
create_access_token(data) == [signer |-> SESSION_SECRET, payload |-> data]

\* SecurityManager.verify_token(token): the data of a token the tool signed;
\* raises for any other
verify_token(token) ==
    IF token.signer = SESSION_SECRET
    THEN [raised |-> FALSE, payload |-> token.payload]
    ELSE [raised |-> TRUE, payload |-> EmptyClaim]

\* x in list
InList(x, list) == \E i \in 1..Len(list) : list[i] = x

\* dependencies.py line 12-47: the user of a bearer token, or the 401 raised
get_current_lti_user(token) ==
    LET v == verify_token(token) IN
    IF v.raised THEN [status |-> 401, user |-> EmptyClaim]
    ELSE IF \E field \in {"user_id", "resource_link_id"} : ~Has(v.payload, field)
    THEN [status |-> 401, user |-> EmptyClaim]
    ELSE [status |-> 200, user |-> v.payload]

\* dependencies.py line 49-67
require_instructor(current_user) ==
    IF ~Get(current_user, "is_instructor", FALSE) THEN 403 ELSE 200

\* dependencies.py line 69-89: roles are compared with the string
\* 'Administrator' as a whole
require_admin(current_user) ==
    IF ~InList(<<"Administrator">>, Get(current_user, "roles", << >>))
            /\ ~Get(current_user, "is_instructor", FALSE)
    THEN 403 ELSE 200

\* tool.py line 200-210
get_all_student_progress(current_user) ==
    IF ~Get(current_user, "is_instructor", FALSE) THEN 403 ELSE 200

\* tool.py line 239-250
submit_bulk_grades(current_user) ==
    IF ~Get(current_user, "is_instructor", FALSE) THEN 403 ELSE 200

RoleChecks == {"require_instructor", "require_admin", "student-progress",
               "bulk-grade-submission"}

\* the answer of a request whose handler depends on the check, for a bearer
\* token: 401 from get_current_lti_user, else what the check answers
Checked(check, token) ==
    LET u == get_current_lti_user(token) IN
    IF u.status # 200 THEN u.status
    ELSE CASE check = "require_instructor"    -> require_instructor(u.user)
           [] check = "require_admin"         -> require_admin(u.user)
           [] check = "student-progress"      -> get_all_student_progress(u.user)
           [] check = "bulk-grade-submission" -> submit_bulk_grades(u.user)

MaxSessionRoles == 2

\* the roles claims of the launches that open a session
SessionRoleClaims ==
    UNION {[1..n -> {ADMINISTRATOR, INSTRUCTOR, LEARNER}] : n \in 0..MaxSessionRoles}

InitSession ==
    /\ envDEBUG \in EnvDebugValues
    /\ now = StartTime
    /\ cache = EmptyCache
    /\ InitRest
    /\ last \in {[op |-> "request", roles_claim |-> r] : r \in SessionRoleClaims}

\* the launch of the platform's token with the roles claim: line 165-265, the
\* session token is created from token_data when the launch is accepted
SessionLaunch ==
    /\ last.op = "request"
    /\ \E outcome \in {[kind |-> "ok", body |-> PlatformJwks],
                        [kind |-> "transport_error", body |-> NoBody]} :
        \E r \in {lti13_launch(RolesToken(last.roles_claim, now), cache, now, outcome)} :
        /\ cache' = r.validation.cache
        /\ last' = [op            |-> "launch",
                    roles_claim   |-> last.roles_claim,
                    status        |-> r.status,
                    session_token |-> create_access_token(r.session)]
    /\ UNCHANGED <<envDEBUG, now>>
    /\ UNCHANGED restVars

\* the bearer tokens a request may carry after the launch: the session token,
\* or one with the same data that someone else signed
Bearers(session_token) ==
    {session_token, [session_token EXCEPT !.signer = OTHER_SECRET]}

\* a request with a bearer token to a handler that makes one of the role checks
RoleCheck ==
    /\ last.op = "launch" /\ last.status = 200
    /\ \E check \in RoleChecks, token \in Bearers(last.session_token) :
        last' = [op            |-> "check",
                 check         |-> check,
                 roles_claim   |-> last.roles_claim,
                 session_token |-> last.session_token,
                 bearer        |-> token,
                 status        |-> Checked(check, token)]
    /\ UNCHANGED <<envDEBUG, now, cache>>
    /\ UNCHANGED restVars

NextSession == SessionLaunch \/ RoleCheck

SpecSession == InitSession /\ [][NextSession]_vars

----------------------------------------------------------------------------
(* The submit-grade endpoint (routes/tool.py) *)

\* models/lti.py line 129-135: the requests the endpoint's body parses to
GradePassbackRequests ==
    {[user_id |-> "user-1", score |-> sc, max_score |-> 100, comment |-> c,
      activity_id |-> None] : sc \in {0, 1}, c \in {None, "well done"}}

\* what a session may hold for one of the two outcomes fields
OutcomeFieldValues(value) == {Absent, None, "", value}

\* the users get_current_lti_user may return to the endpoint
GradeUsers ==
    {[f \in {"user_id", "resource_link_id"}
            \cup {x \in {"lis_outcome_service_url"} : u # Absent}
            \cup {x \in {"lis_result_sourcedid"} : sd # Absent} |->
        CASE f = "user_id"                 -> "user-1"
          [] f = "resource_link_id"        -> "link-1"
          [] f = "lis_outcome_service_url" -> u
          [] f = "lis_result_sourcedid"    -> sd] :
        u \in OutcomeFieldValues(OUTCOMES_URL), sd \in OutcomeFieldValues("sourcedid-1")}

\* Python truth value of current_user.get(field)
FieldSet(current_user, field) == Get(current_user, field, None) \notin {None, ""}

\* does the handler get past the check of line 56
SupportsGrading(current_user) ==
    /\ FieldSet(current_user, "lis_outcome_service_url")
    /\ FieldSet(current_user, "lis_result_sourcedid")

NoGradeResponse == [kind |-> "none", status_code |-> 0, text |-> CHOOSE b \in XmlBodies : ~b.wellformed]

\* does the handler reach the request send_grade posts
ReachesSendGrade(grade_request, current_user) ==
    SupportsGrading(current_user) /\ Has(grade_request, "grade")

\* line 46-97: the HTTP status of the answer, the status and supports_grading
\* of its body ("" and FALSE in the body of an HTTPException) and the number
\* of requests posted to the outcomes service
submit_grade_to_lms(grade_request, current_user, t, uuids, response) ==
    IF ~SupportsGrading(current_user)
    THEN [http_status |-> 200, status |-> "warning", supports_grading |-> FALSE, posts |-> 0]
    ELSE IF ~Has(grade_request, "grade")
    THEN [http_status |-> 500, status |-> "", supports_grading |-> FALSE, posts |-> 0]
    ELSE LET r == send_grade(current_user.lis_outcome_service_url,
                             current_user.lis_result_sourcedid, grade_request.grade,
                             "grade_" \o current_user.user_id, t, uuids, response)
         IN IF r.raised
            THEN [http_status |-> 500, status |-> "", supports_grading |-> FALSE, posts |-> 1]
            ELSE IF r.result.success
            THEN [http_status |-> 200, status |-> "success", supports_grading |-> TRUE, posts |-> 1]
            ELSE [http_status |-> 200, status |-> "error", supports_grading |-> TRUE, posts |-> 1]

InitEndpoint ==
    /\ envDEBUG \in EnvDebugValues
    /\ now = StartTime
    /\ cache = EmptyCache
    /\ InitRest
    /\ last \in {[op |-> "request", grade_request |-> g, current_user |-> u] :
                    g \in GradePassbackRequests, u \in GradeUsers}

\* a request on /api/tool/submit-grade
SubmitGradeToLms ==
    /\ last.op = "request"
    /\ \E response \in IF ReachesSendGrade(last.grade_request, last.current_user)
                        THEN GradeResponses ELSE {NoGradeResponse} :
        \E r \in {submit_grade_to_lms(last.grade_request, last.current_user, now,
                                      <<"uuid-1", "uuid-2">>, response)} :
          last' = [op               |-> "submit-grade",
                   grade_request    |-> last.grade_request,
                   current_user     |-> last.current_user,
                   http_status      |-> r.http_status,
                   status           |-> r.status,
                   supports_grading |-> r.supports_grading,
                   posts            |-> r.posts]
    /\ UNCHANGED <<envDEBUG, now, cache>>
    /\ UNCHANGED restVars

NextEndpoint == SubmitGradeToLms

SpecEndpoint == InitEndpoint /\ [][NextEndpoint]_vars

----------------------------------------------------------------------------
(* get_access_token called from several threads on the one                   *)
(* lti13_grade_service object.  A call is a sequence of steps: the check of  *)
(* the cached token (line 24-25), the return of the cached token (line 26),  *)
(* the token request and its answer (line 28-55), the assignment of          *)
(* access_token (line 57), the assignment of token_expiry and the return     *)
(* (line 58-60).  Steps of different calls interleave.                       *)

MaxGrants == 2

\* the token responses of the platform: a token of the default lifetime and a
\* short-lived one
RaceGrants ==
    {[access_token |-> "access-token-1", expires_in |-> default_expires_in],
     [access_token |-> "access-token-2", expires_in |-> ShortLife]}

RaceTimes == {StartTime, StartTime + ShortLife, StartTime + default_expires_in}

IdleCall == [pc |-> "idle", access_token |-> None, expires_in |-> 0]

InitRace ==
    /\ envDEBUG \in EnvDebugValues
    /\ now = StartTime
    /\ cache = EmptyCache
    /\ service = InitialService
    /\ key_file = "tool-key-1"
    /\ token_requests = << >>
    /\ redirects = << >>
    /\ grants = {}
    /\ threads = [th \in ThreadIds |-> IdleCall]
    /\ last = [op |-> "init"]

RaceUnchanged == UNCHANGED <<envDEBUG, now, cache, key_file, redirects>>

\* a thread calls get_access_token
EnterCall(th) ==
    /\ threads[th].pc = "idle"
    /\ threads' = [threads EXCEPT ![th].pc = "check"]
    /\ last' = [op |-> "enter"]
    /\ UNCHANGED <<service, token_requests, grants>>
    /\ RaceUnchanged

\* line 24-25: is there a cached token whose expiry lies ahead
CheckToken(th) ==
    /\ threads[th].pc = "check"
    /\ threads' = [threads EXCEPT ![th].pc =
                        IF CachedTokenValid(service, now) THEN "return" ELSE "post"]
    /\ last' = [op |-> "check"]
    /\ UNCHANGED <<service, token_requests, grants>>
    /\ RaceUnchanged

\* line 26: return self.access_token
ReturnCached(th) ==
    /\ threads[th].pc = "return"
    /\ threads' = [threads EXCEPT ![th] = IdleCall]
    /\ last' = [op |-> "return", ret |-> service.access_token, at |-> now]
    /\ UNCHANGED <<service, token_requests, grants>>
    /\ RaceUnchanged

\* line 28-55: the client assertion is signed, the request posted, and the
\* token endpoint answers with a token response
PostTokenRequest(th) ==
    /\ threads[th].pc = "post"
    /\ Cardinality(grants) < MaxGrants
    /\ \E g \in RaceGrants :
        /\ grants' = grants \cup {[access_token |-> g.access_token,
                                    expires_in |-> g.expires_in, received |-> now]}
        /\ threads' = [threads EXCEPT ![th] = [pc |-> "store_token",
                                               access_token |-> g.access_token,
                                               expires_in |-> g.expires_in]]
    /\ token_requests' = Append(token_requests,
            TokenRequest(create_tool_jwt([iss |-> LTI_CLIENT_ID, sub |-> LTI_CLIENT_ID,
                                          aud |-> LTI_PLATFORM_TOKEN_URL, jti |-> Jti(now)],
                                         now, key_file).token))
    /\ last' = [op |-> "post"]
    /\ UNCHANGED service
    /\ RaceUnchanged

\* line 57: self.access_token = token_response['access_token']
StoreToken(th) ==
    /\ threads[th].pc = "store_token"
    /\ service' = [service EXCEPT !.access_token = threads[th].access_token]
    /\ threads' = [threads EXCEPT ![th].pc = "store_expiry"]
    /\ last' = [op |-> "store_token"]
    /\ UNCHANGED <<token_requests, grants>>
    /\ RaceUnchanged

\* line 58-60: self.token_expiry = now + expires_in; return self.access_token
StoreExpiry(th) ==
    /\ threads[th].pc = "store_expiry"
    /\ service' = [service EXCEPT !.token_expiry =
                        [set |-> TRUE, value |-> now + threads[th].expires_in]]
    /\ threads' = [threads EXCEPT ![th] = IdleCall]
    /\ last' = [op |-> "return", ret |-> service.access_token, at |-> now]
    /\ UNCHANGED <<token_requests, grants>>
    /\ RaceUnchanged

\* is a call between the answer of the token endpoint and line 58
Storing(th) == threads[th].pc \in {"store_token", "store_expiry"}

\* the clock moves on while calls wait for the token endpoint or have not
\* looked at the cache yet; the return of line 26 follows the check, and the
\* two assignments follow the answer, with no time passing
TickRace ==
    /\ \A th \in ThreadIds : ~Storing(th) /\ threads[th].pc # "return"
    /\ \E t \in RaceTimes : t > now /\ now' = t
    /\ last' = [op |-> "tick"]
    /\ UNCHANGED <<envDEBUG, cache, service, key_file, token_requests, threads, redirects, grants>>

NextRace ==
    \/ TickRace
    \/ \E th \in ThreadIds : EnterCall(th)
    \/ \E th \in ThreadIds : CheckToken(th)
    \/ \E th \in ThreadIds : ReturnCached(th)
    \/ \E th \in ThreadIds : PostTokenRequest(th)
    \/ \E th \in ThreadIds : StoreToken(th)
    \/ \E th \in ThreadIds : StoreExpiry(th)

SpecRace == InitRace /\ [][NextRace]_vars

----------------------------------------------------------------------------
(* Properties of the key-set cache, checked under SpecJwks *)

JwksCall == last.op = "get_platform_jwks"

\* what a call that fetches returns: the fetched document or the empty key set
FetchedOrEmpty(outcome) == IF outcome.kind = "ok" THEN outcome.body ELSE EmptyKeySet

\* C1: a call that finds an entry of age >= 3600 s makes a new fetch and
\* returns the newly fetched key set or the empty key set, never the entry
C1_StaleEntryNeverReturned ==
    (JwksCall /\ last.had /\ last.age >= cache_expiry)
        => (last.gets = 1 /\ last.ret = FetchedOrEmpty(last.outcome))

\* a call at age exactly 3600 s fetched a key set other than the stale one
C1_Witness ==
    /\ JwksCall /\ last.had /\ last.age = cache_expiry
    /\ last.outcome.kind = "ok" /\ last.ret # last.cached

\* C8: once an entry exists (a fetch succeeded), a call made less than
\* 3600 s after it makes no HTTP request and returns the cached set, and a
\* call made after the TTL has elapsed makes exactly one GET
C8_FreshServedStaleFetchedOnce ==
    (JwksCall /\ last.had)
        => IF last.age < cache_expiry
           THEN last.gets = 0 /\ last.ret = last.cached
           ELSE last.gets = 1

\* a call one second before the TTL elapses is served from the cache
C8_Witness ==
    /\ JwksCall /\ last.had /\ last.age = cache_expiry - 1
    /\ last.gets = 0 /\ last.ret = PlatformJwks

----------------------------------------------------------------------------
(* Properties of single validator calls, checked under SpecValidators *)

JwtCall == last.op = "validate_jwt_token"

\* the call got a key set that has keys
HasKeys == JwtCall /\ last.resolved /\ last.jwks.keys # << >>

\* the least index of a set of indices, 0 for none
Least(S) == IF S = {} THEN 0 ELSE CHOOSE i \in S : \A j \in S : i <= j

FirstWithKid(keys, kid) == Least({i \in 1..Len(keys) : keys[i].kid = kid})

FirstSigKey(keys) == Least({i \in 1..Len(keys) : keys[i].use = "sig"})

\* no key selected: the 'no matching key' error, and jwt.decode never called
NoKeyOutcome ==
    /\ ~last.result.valid
    /\ last.result.error = "No matching public key found for kid"
    /\ last.decoded = None

\* C11: with a non-empty key set the token is verified with the first key
\* whose kid equals the header's kid, or, when the header has no kid, with the
\* first key tagged use=sig; when that selects no key the result is the 'no
\* matching key' error and no signature check is made
C11_KeySelection ==
    HasKeys =>
        LET expected == IF last.id_token.kid # Absent
                        THEN FirstWithKid(last.jwks.keys, last.id_token.kid)
                        ELSE FirstSigKey(last.jwks.keys)
        IN /\ last.used = expected
           /\ expected = 0 => NoKeyOutcome

\* C11 as amended: the same, where a header whose kid is the empty string
\* counts as a header without kid
C11_KeySelectionNonEmptyKid ==
    HasKeys =>
        LET expected == IF Truthy(last.id_token.kid)
                        THEN FirstWithKid(last.jwks.keys, last.id_token.kid)
                        ELSE FirstSigKey(last.jwks.keys)
        IN /\ last.used = expected
           /\ expected = 0 => NoKeyOutcome

\* a header without kid was verified with the second key, the first one
\* tagged use=sig
C11_Witness ==
    /\ HasKeys
    /\ last.id_token.kid = Absent
    /\ last.used = 2
    /\ last.jwks.keys[1].use = "enc"
    /\ last.decoded = "ok"

\* what is wrong with the token of a call that reached jwt.decode
DecodeFaults ==
    LET tok == last.id_token IN
      {f \in {"expired"} : Has(tok.payload, "exp") /\ tok.payload.exp < last.at}
 \cup {f \in {"audience"} : ~AudienceMatches(tok.payload.aud, LTI_CLIENT_ID)}
 \cup {f \in {"issuer"} : tok.payload.iss # LTI_PLATFORM_ISSUER}
 \cup {f \in {"signature"} : tok.signer # last.jwks.keys[last.used].n}

\* the error value of each of the four categories
CategoryError ==
    [expired   |-> "Token expired",
     audience  |-> "Invalid audience: Audience doesn't match",
     issuer    |-> "Invalid issuer: Invalid issuer",
     signature |-> "Invalid signature"]

\* the error values of the failures before jwt.decode
EarlierErrors ==
    {"Not enough segments",
     "Missing issuer (iss) in JWT",
     "Missing audience (aud) in JWT",
     "No public keys available for signature verification",
     "No matching public key found for kid"}

\* C12: an expired token, a wrong audience, a wrong issuer and a bad signature
\* each yield their own error value, different from each other's and from
\* the error of every other failure
C12_CategoriesDistinguishable ==
    /\ \A f, g \in DOMAIN CategoryError :
            /\ f # g => CategoryError[f] # CategoryError[g]
            /\ CategoryError[f] \notin EarlierErrors
    /\ (JwtCall /\ last.used # 0) =>
            \A f \in DOMAIN CategoryError :
                DecodeFaults = {f} =>
                    (~last.result.valid /\ last.result.error = CategoryError[f])
    /\ (JwtCall /\ last.used = 0 /\ ~last.result.valid) =>
            last.result.error \in EarlierErrors

LtiCall == last.op = "validate_lti_message"

\* C13: a result with valid=false carries a non-empty errors list, from
\* validate_jwt_token and from validate_lti_message alike
C13_InvalidCarriesErrorsList ==
    ((JwtCall \/ LtiCall) /\ ~last.result.valid) =>
        ("errors" \in DOMAIN last.result /\ Len(last.result.errors) > 0)

\* C13 as amended: a result with valid=false carries its errors:
\* validate_jwt_token one non-empty error string, validate_lti_message a
\* non-empty list of non-empty errors
C13_InvalidCarriesErrors ==
    /\ (JwtCall /\ ~last.result.valid) =>
            ("error" \in DOMAIN last.result /\ last.result.error # "")
    /\ (LtiCall /\ ~last.result.valid) =>
            /\ Len(last.result.errors) > 0
            /\ \A i \in 1..Len(last.result.errors) : last.result.errors[i] # ""

\* a token without aud was rejected with the error that says so
C13_Witness ==
    /\ JwtCall /\ ~last.result.valid
    /\ ~Has(last.id_token.payload, "aud")
    /\ last.result.error = "Missing audience (aud) in JWT"

\* C14: a result with valid=true carries a non-empty payload of claims, from
\* validate_jwt_token and from validate_lti_message alike
C14_ValidCarriesPayload ==
    ((JwtCall \/ LtiCall) /\ last.result.valid) =>
        ("payload" \in DOMAIN last.result /\ DOMAIN last.result.payload # {})

\* the four checks of validate_lti_message that add an error
FailingChecks ==
    LET p == last.jwt_payload IN
      {k \in {"missing"} : \E c \in RequiredClaims : ~Has(p, c)}
 \cup {k \in {"deployment"} :
            ~(Has(p, "deployment_id") /\ p.deployment_id = LTI_DEPLOYMENT_ID)}
 \cup {k \in {"expired"} : ~(Has(p, "exp") /\ p.exp >= last.at)}
 \cup {k \in {"future"} : Has(p, "iat") /\ p.iat > last.at + 60}

\* C15: validate_lti_message returns valid=true exactly when the eight
\* required claims are present, deployment_id is the configured one,
\* exp >= now and iat <= now + 60; version, message type and target_link_uri
\* only add warnings
C15_ValidExactlyWhen ==
    LtiCall =>
        LET p == last.jwt_payload IN
        /\ last.result.valid <=>
                /\ \A c \in RequiredClaims : Has(p, c)
                /\ p.deployment_id = LTI_DEPLOYMENT_ID
                /\ p.exp >= last.at
                /\ p.iat <= last.at + 60
        /\ Len(last.result.warnings) =
                Cardinality({k \in {"version"} : Get(p, "version", None) # "1.3.0"}
                    \cup {k \in {"message_type"} :
                            Get(p, "message_type", None) \notin SupportedTypes}
                    \cup {k \in {"target"} :
                            /\ Has(p, "target_link_uri")
                            /\ ~StartsWithToolUrl(p.target_link_uri)})

\* a payload of another version with exp = now and iat = now + 60 is valid
C15_Witness ==
    /\ LtiCall /\ last.result.valid
    /\ last.jwt_payload.version # "1.3.0"
    /\ Len(last.result.warnings) = 1
    /\ last.jwt_payload.exp = last.at
    /\ last.jwt_payload.iat = last.at + 60

\* C16: every failing check of validate_lti_message adds its own entry to
\* errors: a payload failing k of the four checks yields k errors
C16_ErrorsAccumulate ==
    LtiCall => Len(last.result.errors) = Cardinality(FailingChecks)

\* a payload failing all four checks got four errors
C16_Witness ==
    /\ LtiCall
    /\ Cardinality(FailingChecks) = 4
    /\ Len(last.result.errors) = 4

\* C31: validate_jwt_token returns a result with a valid flag for every token
\* and every key set (a malformed token, missing claims, an unreachable key
\* set, an unusable key): no exception leaves the function, and a result with
\* valid=false carries the error
C31_NeverRaises ==
    JwtCall =>
        /\ ~last.raised
        /\ "valid" \in DOMAIN last.result
        /\ last.result.valid \in BOOLEAN
        /\ ~last.result.valid => "error" \in DOMAIN last.result

\* the selected key could not be loaded: InvalidKeyError was raised in the try
\* body and the call returned valid=false
C31_Witness ==
    /\ JwtCall
    /\ last.exception = "InvalidKeyError"
    /\ last.jwks = UnusableJwks
    /\ ~last.result.valid
    /\ last.result.error = "Not an RSA key"

----------------------------------------------------------------------------
(* Properties of the role extraction, checked under SpecRoles *)

\* an accepted launch: user_roles is what the session token's roles come from
RolesLaunch == last.op = "launch" /\ last.posted /\ last.status = 200

Range(seq) == {seq[i] : i \in 1..Len(seq)}

\* the role names in the order the claim lists them, with their roles
RoleOrder ==
    << <<"Instructor", INSTRUCTOR>>, <<"Learner", LEARNER>>,
       <<"Administrator", ADMINISTRATOR>>, <<"TeachingAssistant", TEACHING_ASSISTANT>> >>

\* first match wins: the role of the first name of RoleOrder the IRI contains
FirstMatch(role_uri) ==
    LET k == Least({i \in 1..Len(RoleOrder) : Contains(role_uri, RoleOrder[i][1])})
    IN IF k = 0 THEN MEMBER ELSE RoleOrder[k][2]

\* C17: each role IRI is mapped by containment, first match winning in the
\* order Instructor, Learner, Administrator, TeachingAssistant, else Member,
\* and an IRI containing 'TeachingAssistant' maps to the TeachingAssistant role
C17_RoleMapping ==
    RolesLaunch =>
        LET roles_claim == last.id_token.payload.roles
            user_roles  == last.session.roles
        IN /\ Len(user_roles) = Len(roles_claim)
           /\ \A i \in 1..Len(roles_claim) :
                /\ user_roles[i] = FirstMatch(roles_claim[i])
                /\ Contains(roles_claim[i], "TeachingAssistant")
                        => user_roles[i] = TEACHING_ASSISTANT

\* C18: a roles claim with an Instructor IRI and a Learner IRI maps to a role
\* set with both Instructor and Learner, and every ordering of the claim maps
\* to the same set
C18_RoleSetOrderIndependent ==
    RolesLaunch =>
        LET roles_claim == last.id_token.payload.roles
            n           == Len(roles_claim)
            role_set    == Range(last.session.roles)
        IN /\ (INSTRUCTOR \in Range(roles_claim) /\ LEARNER \in Range(roles_claim))
                => (INSTRUCTOR \in role_set /\ LEARNER \in role_set)
           /\ \A f \in Permutations(1..n) :
                Range(ExtractRoles([i \in 1..n |-> roles_claim[f[i]]])) = role_set

\* the claim Learner, Instructor, Member was mapped to those three roles
C18_Witness ==
    /\ RolesLaunch
    /\ last.id_token.payload.roles = <<LEARNER, INSTRUCTOR, MEMBER>>
    /\ last.session.roles = <<LEARNER, INSTRUCTOR, MEMBER>>

----------------------------------------------------------------------------
(* Properties of send_grade, checked under SpecGrade *)

GradeCall == last.op = "send_grade"

\* C19: send_grade returns a structured result and lets no fault escape,
\* whatever the platform answers: transport failure, any HTTP status,
\* malformed XML, XML without a status block, a status block whose elements
\* are missing or empty
C19_SendGradeNeverRaises ==
    GradeCall =>
        /\ ~last.raised
        /\ "success" \in DOMAIN last.result

\* C20: send_grade reports the code HTTP_ERROR exactly for the responses that
\* are not 2xx; a 2xx response is parsed for its status block
C20_HttpErrorExactlyNon2xx ==
    (GradeCall /\ last.response.kind = "response" /\ ~last.raised) =>
        (("code" \in DOMAIN last.result /\ last.result.code = "HTTP_ERROR")
            <=> last.response.status_code \notin 200..299)

\* a response that send_grade parses: status 200, well-formed XML with a
\* status block
ParsedResponse ==
    /\ GradeCall
    /\ last.response.kind = "response"
    /\ last.response.status_code = 200
    /\ last.response.text.wellformed
    /\ last.response.text.has_status

\* C21: for a parsed outcomes response send_grade returns success = true
\* exactly when the response's imsx_codeMajor is 'success' in any letter
\* case, and the result's code_major is the response's value as it was sent
C21_SuccessIffCodeMajorSuccess ==
    ParsedResponse =>
        LET code_major == last.response.text.code_major
        IN /\ (~last.raised /\ last.result.success)
                <=> code_major \in {"success", "Success"}
           /\ (~last.raised /\ code_major # Absent) =>
                last.result.code_major = code_major

C21_Witness ==
    /\ ParsedResponse
    /\ last.response.text.code_major = "Success"
    /\ ~last.raised
    /\ last.result.success
    /\ last.result.code_major = "Success"

\* the OAuth parameters before the signature is added
OAuthParameterNames ==
    {"oauth_consumer_key", "oauth_signature_method", "oauth_timestamp",
     "oauth_nonce", "oauth_version", "oauth_body_hash"}

\* C22: the oauth_body_hash of the Authorization header is base64(SHA1) of
\* the XML body that is posted, the signature is computed over the parameter
\* set that holds this body hash and no oauth_signature, and the header
\* lists every oauth_* parameter and the signature
C22_BodyHashSignedAndListed ==
    GradeCall =>
        LET parts == last.request.headers.Authorization.parts
            hash  == Sha1B64(last.request.data)
            base  == parts["oauth_signature"].quote_plus.b64hmac_sha1
            signed_params == base[3].quote_plus
        IN /\ DOMAIN parts = OAuthParameterNames \cup {"oauth_signature"}
           /\ parts["oauth_body_hash"].quote_plus = hash
           /\ DOMAIN signed_params = OAuthParameterNames
           /\ signed_params["oauth_body_hash"].quote_plus = hash
           /\ \A k \in OAuthParameterNames : signed_params[k] = parts[k]
           /\ base[1] = "POST"
           /\ base[2] = QuotePlus(last.request.url)

C22_Witness ==
    /\ GradeCall
    /\ last.request.data.imsx_messageIdentifier = "uuid-1"
    /\ last.request.headers.Authorization.parts["oauth_body_hash"].quote_plus
            = Sha1B64(last.request.data)
    /\ "oauth_signature" \in DOMAIN last.request.headers.Authorization.parts

----------------------------------------------------------------------------
(* Properties of the service access token, checked under SpecAgs *)

TokenCall == last.op = "get_access_token"

\* the slot holds a token and its expiry, as a successful request leaves it
HoldsToken(svc) == svc.access_token \in AccessTokens /\ svc.token_expiry.set

\* C23: with a token in the slot, a get_access_token call before the token's
\* expiry posts nothing to the token endpoint and returns the cached token,
\* and a call at or after the expiry posts exactly one token request
C23_TokenReuse ==
    (TokenCall /\ HoldsToken(last.before)) =>
        IF last.at < last.before.token_expiry.value
        THEN /\ last.posts = << >>
             /\ ~last.raised
             /\ last.ret = last.before.access_token
        ELSE Len(last.posts) = 1

\* the client assertions posted to the token endpoint so far
Assertions ==
    [i \in 1..Len(token_requests) |-> token_requests[i].request.data.client_assertion]

\* C24: every client assertion sent to the token endpoint has iss = sub =
\* the configured client id and aud = the token endpoint URL
C24_AssertionClaims ==
    \A i \in 1..Len(Assertions) :
        /\ Assertions[i].payload.iss = LTI_CLIENT_ID
        /\ Assertions[i].payload.sub = LTI_CLIENT_ID
        /\ Assertions[i].payload.aud = LTI_PLATFORM_TOKEN_URL

\* C25: no two token requests of the process present the same jti
C25_JtiUnique ==
    \A i, j \in 1..Len(Assertions) :
        i # j => Assertions[i].payload.jti # Assertions[j].payload.jti

\* the answers that give no usable token: a transport failure, a status
\* that is not 2xx, a body that is no JSON object with an access_token and
\* a numeric lifetime
TokenRequestFails(response) ==
    \/ response.kind = "transport_error"
    \/ /\ response.kind = "response"
       /\ \/ response.status_code \notin 200..299
          \/ ~response.body.json
          \/ response.body.access_token = Absent
          \/ response.body.expires_in.kind = "string"

\* C26: on a transport failure, a non-2xx response or an unusable token
\* response get_access_token raises the 'Token request failed' ValueError
\* and leaves access_token and token_expiry as they were
C26_FailureLeavesCacheUnchanged ==
    (TokenCall /\ TokenRequestFails(last.response)) =>
        /\ last.raised
        /\ last.exception = "ValueError: Token request failed"
        /\ service = last.before

\* C30: every client assertion of one process run is signed with the same
\* private key, whatever happens to the key file after startup
C30_OneSigningKey ==
    \A i, j \in 1..Len(Assertions) : Assertions[i].signer = Assertions[j].signer

----------------------------------------------------------------------------
(* Properties of submit_grade, checked under SpecScores *)

SubmitCall == last.op = "submit_grade"

\* C27: submit_grade returns true only when the score POST answers 200 or
\* 201; a failed token request, a claim without line-items URL, a transport
\* error and every other status give false, and no exception escapes
C27_TrueOnlyOn200Or201 ==
    SubmitCall =>
        /\ ~last.raised
        /\ last.ret <=>
                /\ last.scores # << >>
                /\ last.score_response.kind = "response"
                /\ last.score_response.status_code \in {200, 201}

C27_Witness ==
    /\ SubmitCall
    /\ last.scores # << >>
    /\ last.score_response.kind = "response"
    /\ last.score_response.status_code = 204
    /\ ~last.ret

\* C28: while the token in the one slot is unexpired, a call made for any
\* service claim posts no token request, leaves the slot as it is and sends
\* that token as the bearer of its score request, also when the token was
\* obtained for another claim
C28_SingleSlot ==
    (SubmitCall /\ HoldsToken(last.before)
        /\ last.at < last.before.token_expiry.value) =>
        /\ last.posts = << >>
        /\ service = last.before
        /\ \A i \in 1..Len(last.scores) :
                last.scores[i].headers.Authorization.token = last.before.access_token

C28_Witness ==
    /\ SubmitCall
    /\ last.nth = 2
    /\ last.posts = << >>
    /\ Len(token_requests) = 1
    /\ token_requests[1].ags_claim.lineitems = LINEITEMS_1
    /\ last.ags_claim.lineitems = LINEITEMS_2
    /\ last.scores # << >>
    /\ last.scores[1].url = LINEITEMS_2 \o "/scores"
    /\ last.scores[1].headers.Authorization.token = last.before.access_token
    /\ last.ret

----------------------------------------------------------------------------
(* Properties of concurrent get_platform_jwks calls, checked under          *)
(* SpecConcurrent                                                            *)

\* the step from this state to the next writes the entry of iss
Written(iss) ==
    /\ iss \in DOMAIN cache'
    /\ (iss \in DOMAIN cache => cache'[iss] # cache[iss])

\* thread th assigns, in this step, the key set it fetched and the time of
\* the assignment as the entry of iss
WholeWriteBy(th, iss) ==
    /\ threads[th].pc = "store"
    /\ threads[th].iss = iss
    /\ threads'[th].pc = "idle"
    /\ DOMAIN cache'[iss] = {"jwks", "timestamp"}
    /\ cache'[iss].jwks = threads[th].jwks
    /\ cache'[iss].timestamp = now

\* C29: under concurrent calls the entry of an issuer is absent or a whole
\* {jwks, timestamp} pair of one single fetch: an entry only ever changes by
\* one call assigning the key set it fetched together with the current
\* time, and no entry is removed
C29_EntriesWrittenWhole ==
    [][/\ DOMAIN cache \subseteq DOMAIN cache'
       /\ \A iss \in Issuers :
            Written(iss) => \E th \in ThreadIds : WholeWriteBy(th, iss)]_vars

\* two calls missed for the same issuer and both fetched; one has just
\* written its entry, the other is about to replace it with what it fetched
C29_Witness ==
    /\ last.op = "store"
    /\ threads[1].pc = "store"
    /\ threads[1].iss = LTI_PLATFORM_ISSUER
    /\ threads[1].jwks = PlatformJwks
    /\ threads[2].pc = "idle"
    /\ LTI_PLATFORM_ISSUER \in DOMAIN cache
    /\ cache[LTI_PLATFORM_ISSUER] = [jwks |-> NoKeysJwks, timestamp |-> now]

----------------------------------------------------------------------------
(* Properties of repeated validations, checked under SpecCached *)

\* the call found a fresh cache entry for the token's issuer whose key set
\* has no key with the token's kid (or no key at all)
FreshEntryLacksKid ==
    /\ last.op = "validate_jwt_token"
    /\ last.fresh
    /\ \A i \in 1..Len(last.cached.keys) : last.cached.keys[i].kid # last.id_token.kid

\* C37: while the cache entry of the token's issuer is fresh and holds no key
\* with the token's kid, or no key at all, every validation of the token
\* makes no network call and fails
C37_MissRejectedWithoutRefetch ==
    FreshEntryLacksKid => (last.gets = 0 /\ ~last.result.valid)

----------------------------------------------------------------------------
(* Properties of the login initiation and the launch, checked under SpecOidc *)

\* an earlier login initiation issued the state together with the nonce
Issued(state, nonce) ==
    \E i \in 1..Len(redirects) :
        redirects[i].state = state /\ redirects[i].nonce = nonce

\* C39: a launch is accepted only if its state was issued by an earlier login
\* initiation and the token's nonce is the one issued with that state
C39_StateAndNonceIssued ==
    (last.op = "launch" /\ last.status = 200)
        => Issued(last.state, last.id_token.payload.nonce)

----------------------------------------------------------------------------
(* Properties of the role checks, checked under SpecSession *)

\* the check was made with the session token the launch created
CheckedWithSession(checks) ==
    /\ last.op = "check"
    /\ last.check \in checks
    /\ last.bearer = last.session_token

\* the launch stored the role in the session token
SessionHolds(role) == InList(role, last.session_token.payload.roles)

\* C34: require_admin admits every user whose session token, as the launch
\* created it, holds the Administrator role, and rejects every other session
\* user with 403
C34_AdminAdmittedOthersRejected ==
    CheckedWithSession({"require_admin"}) =>
        IF SessionHolds(ADMINISTRATOR) THEN last.status = 200 ELSE last.status = 403

\* C38: the instructor-only checks (require_instructor, student-progress,
\* bulk-grade-submission) admit a user launched with an Instructor role IRI
\* and reject with 403 a user launched without one
C38_InstructorAdmittedOthersRejected ==
    CheckedWithSession({"require_instructor", "student-progress", "bulk-grade-submission"}) =>
        IF \E i \in 1..Len(last.roles_claim) : Contains(last.roles_claim[i], "Instructor")
        THEN last.status = 200 ELSE last.status = 403

----------------------------------------------------------------------------
(* Properties of the submit-grade endpoint, checked under SpecEndpoint *)

\* C33: the submit-grade endpoint never answers with an HTTP error: for a
\* session without outcomes URL or sourcedId it answers supports_grading=false
\* and posts nothing; otherwise it calls send_grade once and answers status
\* 'success' or 'error'
C33_NeverHttpError ==
    last.op = "submit-grade" =>
        /\ last.http_status = 200
        /\ IF SupportsGrading(last.current_user)
           THEN last.posts = 1 /\ last.status \in {"success", "error"}
           ELSE last.posts = 0 /\ ~last.supports_grading

----------------------------------------------------------------------------
(* Properties of concurrent get_access_token calls, checked under SpecRace *)

\* the cached token and the cached expiry are those of one token response
PairOfOneResponse ==
    \E g \in grants :
        /\ service.access_token = g.access_token
        /\ service.token_expiry.value = g.received + g.expires_in

\* the token was returned before the expiry one of its responses declared
ReturnedInTime(token, t) ==
    \E g \in grants : g.access_token = token /\ t < g.received + g.expires_in

\* C36: under concurrent get_access_token calls the cached access token and
\* the cached expiry belong to the same token response whenever no call is
\* between its two assignments, and no call returns a token at or after the
\* expiry its own response declared
C36_TokenAndExpiryOfOneResponse ==
    /\ (grants # {} /\ \A th \in ThreadIds : ~Storing(th)) => PairOfOneResponse
    /\ last.op = "return" => ReturnedInTime(last.ret, last.at)

----------------------------------------------------------------------------
(* Properties of token validation and of the launch, checked under Spec *)

\* validate_jwt_token was called with the posted id_token
Validated == last.op = "launch" /\ last.posted

\* validate_jwt_token resolved the issuer's key set and it has no keys
KeySetEmpty == last.resolved /\ last.jwks.keys = << >>

\* the key set holds a key with the token's kid, and that key signed the token
SignedByListedKey ==
    /\ last.resolved
    /\ \E i \in 1..Len(last.jwks.keys) :
            /\ last.jwks.keys[i].kid = last.id_token.kid
            /\ last.jwks.keys[i].n = last.id_token.signer

AudHasClientId ==
    /\ Has(last.id_token.payload, "aud")
    /\ AudienceMatches(last.id_token.payload.aud, LTI_CLIENT_ID)

Accepted == Validated /\ last.status = 200

\* C2: every accepted launch carries the registered platform issuer: a token
\* of another issuer, checked against the key set that issuer publishes at its
\* own URL, is never accepted
C2_OnlyRegisteredIssuerAccepted ==
    (Validated /\ last.resolved /\ last.jwks = OtherJwks
        /\ last.id_token.payload.iss # LTI_PLATFORM_ISSUER)
        => last.status # 200

\* C3: with DEBUG not set in the environment, no token is valid whose
\* signature was not verified because the key set is empty
C3_UnverifiedNotByDefault ==
    (Validated /\ envDEBUG = Unset /\ KeySetEmpty) => ~last.validation.valid

\* C4: with settings.DEBUG false, an empty key set gives valid=false with an
\* error
C4_NoKeysRejectedWithoutDebug ==
    (Validated /\ ~DEBUG /\ KeySetEmpty)
        => (/\ ~last.validation.valid
            /\ last.validation.error
                    = "No public keys available for signature verification")

\* debug off, the fetch failed, and the token was rejected
C4_Witness ==
    /\ Validated /\ ~DEBUG /\ KeySetEmpty
    /\ last.outcome.kind \in FetchFailures
    /\ ~last.validation.valid

\* C5: a valid result without a verified signature carries the warning that
\* tells so, and a valid result without warnings comes from a jwt.decode that
\* verified signature, expiry, audience and issuer
C5_UnverifiedIsTagged ==
    (Validated /\ last.validation.valid)
        => IF last.validation.warnings = << >>
           THEN /\ last.decoded = "ok"
                /\ SignedByListedKey
                /\ ~(Has(last.id_token.payload, "exp")
                        /\ last.id_token.payload.exp <= last.at)
                /\ AudHasClientId
                /\ Has(last.id_token.payload, "iss")
           ELSE /\ last.decoded = None
                /\ last.validation.warnings = <<UNVERIFIED_WARNING>>

\* a token signed by nobody's listed key was reported valid, with the warning
C5_Witness ==
    /\ Validated /\ last.validation.valid /\ KeySetEmpty
    /\ last.validation.warnings = <<UNVERIFIED_WARNING>>

\* C6: every token reported valid has an aud that is or contains the client id
C6_ValidHasAudience ==
    (Validated /\ last.validation.valid) => AudHasClientId

\* the launch the registered platform minted, with exp = now - 10 s
ExpiredLaunch(t) ==
    [MintedToken(LTI_PLATFORM_ISSUER, PlatformKey, t) EXCEPT !.payload.exp = t - 10]

\* C7: a token whose exp lies in the past (exp = now - 10 s) gives
\* valid=false with the error 'Token expired'
C7_ExpiredIsTokenExpired ==
    (Validated /\ last.id_token = ExpiredLaunch(last.at))
        => (~last.validation.valid /\ last.validation.error = "Token expired")

\* C10: validate_lti_message and the identity extraction run only on a
\* payload that jwt.decode verified
C10_ProtocolChecksOnlyOnVerified ==
    (Validated /\ last.ran_lti) => last.decoded = "ok"

\* the launch was rejected by validate_jwt_token
RejectedByToken == Validated /\ ~last.validation.valid

\* the launch was rejected by validate_lti_message
RejectedByClaims == Validated /\ last.ran_lti /\ ~last.lti.valid

\* the LTI 1.1 launch was rejected by validate_lti_request
RejectedLegacy == last.op = "lti_launch" /\ ~last.validation_result.valid

\* the entries of errors (at most four), separated by ", "
ErrorsJoined(errors) ==
    CASE Len(errors) = 1 -> errors[1]
      [] Len(errors) = 2 -> errors[1] \o ", " \o errors[2]
      [] Len(errors) = 3 -> errors[1] \o ", " \o errors[2] \o ", " \o errors[3]
      [] Len(errors) = 4 ->
            errors[1] \o ", " \o errors[2] \o ", " \o errors[3] \o ", " \o errors[4]

\* C32: every launch rejected by validation is answered with status 401 and
\* a message that holds the validation errors joined, for a failing token
\* validation and for a failing protocol-claim validation alike
C32_RejectedWith401 ==
    /\ RejectedByToken =>
            /\ last.status = 401
            /\ last.detail = "Invalid JWT token: " \o last.validation.error
    /\ RejectedByClaims =>
            /\ last.status = 401
            /\ last.detail = "Invalid LTI message: " \o ErrorsJoined(last.lti.errors)
    /\ RejectedLegacy =>
            /\ last.status = 401
            /\ last.detail = "Invalid LTI request: "
                                \o ErrorsJoined(last.validation_result.errors)

\* C32 as amended: a launch rejected by token validation, and an LTI 1.1
\* launch rejected by request validation, is answered with status 401; an
\* LTI 1.3 launch rejected by protocol-claim validation is answered with
\* status 400; the message holds the error, or the errors joined
C32_RejectedWith401Or400 ==
    /\ RejectedByToken =>
            /\ last.status = 401
            /\ last.detail = "Invalid JWT token: " \o last.validation.error
    /\ RejectedByClaims =>
            /\ last.status = 400
            /\ last.detail = "Invalid LTI message: " \o ErrorsJoined(last.lti.errors)
    /\ RejectedLegacy =>
            /\ last.status = 401
            /\ last.detail = "Invalid LTI request: "
                                \o ErrorsJoined(last.validation_result.errors)

\* a launch whose token passed validate_jwt_token was rejected by
\* validate_lti_message with more than one error
C32_Witness ==
    /\ RejectedByClaims
    /\ Len(last.lti.errors) >= 2
    /\ last.status = 400

\* C35: no launch is accepted, and no session token created, for a token
\* whose exp is absent or earlier than the current time, whatever DEBUG is
\* and whether or not the signature was verified
C35_NoSessionForExpired ==
    (Validated /\ (~Has(last.id_token.payload, "exp")
                        \/ last.id_token.payload.exp < last.at))
        => (last.status # 200 /\ last.session = NoSession)

\* an expired token passed validate_jwt_token unverified, on the debug path,
\* and the launch was rejected for the expiry by validate_lti_message
C35_Witness ==
    /\ Validated /\ KeySetEmpty /\ last.validation.valid
    /\ Has(last.id_token.payload, "exp")
    /\ last.id_token.payload.exp < last.at
    /\ last.lti.errors = <<"Token has expired">>
    /\ last.status = 400

====
